---- MODULE Spec2Model ----
(***************************************************************************)
(* A model of three of the daily solutions of aoc2021-rust:                *)
(*   day18  snailfish numbers: add / reduce / explode / split / magnitude  *)
(*   day15  grid path finding: edges, scaling, A* search                   *)
(*   day16  bit stream packets: decoding, value, version sum               *)
(* Each day is a standalone program; each has its own specification here   *)
(* (SpecDay18, SpecDay15, SpecDay16); Spec runs any one of them.           *)
(***************************************************************************)
EXTENDS Integers, Sequences, FiniteSets, TLC

VARIABLES
    day,        \* which program this behaviour runs: 15, 16 or 18
    \* ---- day18 ----
    sf,         \* the SnailFish value being worked on (self)
    operands,   \* <<a, b>> when sf was built by a + b, <<>> otherwise
    pc18,       \* "idle" | "reduce" | "done" | "mag"
    lastOp,     \* the rewrite the last iteration of reduce performed
    mag,        \* the result of magnitude(), -1 before it is called
    prev,       \* what the previous call of reduce returned, <<>> when none
    numbers,    \* Input.numbers handed to solve_part2, <<>> before
    part2,      \* what solve_part2 returned: <<>> is None, <<m>> is Some(m)
    \* ---- day15 ----
    text,       \* the input text: a sequence of lines, each a sequence of chars
    input,      \* day15::Input, the Vec<Point>
    factor,     \* the argument of the last scale(), 0 when none was made
    pc15,       \* "start" | "parsed" | "scaled" | "astar" | "done" | "panic" | "parse_err"
    graph,      \* the UnGraphMap built from the edges
    goal,       \* end, the node astar searches for
    visited,    \* astar: the nodes already expanded
    visit_next, \* astar: the heap of MinScored(estimate, node)
    scores,     \* astar: the best known cost of reaching each scored node
    distance,   \* what solve_part1 returns, -1 before
    overflow_checks, \* the build: TRUE when integer arithmetic panics on
                \* overflow (debug profile), FALSE when it wraps (release
                \* profile)
    \* ---- day16 ----
    given,      \* where the bit stream comes from: a hex string, a bit string,
                \* or the first cut bits of a generated packet's encoding
    bits,       \* the chars ('0' / '1', here 0 / 1) handed to from_iterator
    dec,        \* what Packet::from_iterator returned, and the iterator left
    pc16,       \* "start" | "decoded" | "panic"
    val,        \* what value() returned: [panic, v], v the eight bytes of
                \* the u64, <<>> before
    trav,       \* what traverse_subpackets() returned
    vsum,       \* the version sum of solve_part1, -1 before
    dec2        \* what a second Packet::from_iterator on the same iterator
                \* returned, <<>> before

vars18 == <<sf, operands, pc18, lastOp, mag, prev, numbers, part2>>
vars15 == <<text, input, factor, pc15, graph, goal, visited, visit_next, scores, distance,
            overflow_checks>>
vars16 == <<given, bits, dec, pc16, val, trav, vsum, dec2>>
vars == <<day, vars18, vars15, vars16>>

\* The values a program's variables keep while another program runs.
Idle18 ==
    /\ sf = <<0>> /\ operands = <<>> /\ pc18 = "off" /\ lastOp = "none" /\ mag = -1
    /\ prev = <<>> /\ numbers = <<>> /\ part2 = <<>>

Idle15 ==
    /\ text = <<>> /\ input = <<>> /\ factor = 0 /\ pc15 = "off"
    /\ graph = <<>> /\ goal = <<>> /\ visited = {} /\ visit_next = {}
    /\ scores = <<>> /\ distance = -1 /\ overflow_checks = FALSE

Idle16 ==
    /\ given = <<>> /\ bits = <<>> /\ dec = <<>> /\ pc16 = "off"
    /\ val = <<>> /\ trav = <<>> /\ vsum = -1 /\ dec2 = <<>>

(***************************************************************************)
(*                              day18                                      *)
(***************************************************************************)

\* SnailFish::Num(n) is the 1-tuple <<n>>, SnailFish::Pair(Box((a, b))) the
\* 2-tuple <<a, b>>.  A node is addressed by its path from the root: a
\* sequence over {1, 2} (1 selects bx.0, 2 selects bx.1); a path stands for
\* the raw pointer the code keeps to that node.
Num(n) == <<n>>
Pair(a, b) == <<a, b>>
IsNum(t) == Len(t) = 1
IsPair(t) == Len(t) = 2

RECURSIVE At(_, _)
At(t, p) == IF p = <<>> THEN t ELSE At(t[Head(p)], Tail(p))

RECURSIVE Put(_, _, _)
Put(t, p, new) ==
    IF p = <<>> THEN new
    ELSE IF Head(p) = 1 THEN <<Put(t[1], Tail(p), new), t[2]>>
    ELSE <<t[1], Put(t[2], Tail(p), new)>>

\* Option::None for a pointer, and for a u32 value
NoPath == <<0>>
NoVal == -1

\* (mutant) the Num is left as it is
TryAddValueNothing(t, rhs) == t

\* try_add_value: adds rhs to a Num; a Pair is left alone (None)
TryAddValue(t, rhs) == IF IsNum(t) THEN Num(t[1] + rhs) ELSE t

RECURSIVE recurse_left_mut(_, _)
recurse_left_mut(t, p) ==
    IF IsPair(At(t, p)) THEN recurse_left_mut(t, p \o <<1>>) ELSE p

RECURSIVE recurse_right_mut(_, _)
recurse_right_mut(t, p) ==
    IF IsPair(At(t, p)) THEN recurse_right_mut(t, p \o <<2>>) ELSE p

\* get_rightmost_value_from(this, parents): pops the parents, nearest first;
\* a parent reached through its right child is put in seen and skipped, the
\* first other parent gives the leftmost leaf of its right child.
RECURSIVE get_rightmost_value_from(_, _, _, _)
get_rightmost_value_from(t, this, parents, seen) ==
    IF parents = <<>> THEN NoPath
    ELSE LET parent == parents[Len(parents)]
             rest == SubSeq(parents, 1, Len(parents) - 1)
         IN  IF IsPair(At(t, parent))
             THEN IF this = parent \o <<2>> \/ \E p \in seen : p = parent \o <<2>>
                  THEN get_rightmost_value_from(t, this, rest, seen \cup {parent})
                  ELSE recurse_left_mut(t, parent \o <<2>>)
             ELSE get_rightmost_value_from(t, this, rest, seen)

RECURSIVE get_leftmost_value_from(_, _, _, _)
get_leftmost_value_from(t, this, parents, seen) ==
    IF parents = <<>> THEN NoPath
    ELSE LET parent == parents[Len(parents)]
             rest == SubSeq(parents, 1, Len(parents) - 1)
         IN  IF IsPair(At(t, parent))
             THEN IF this = parent \o <<1>> \/ \E p \in seen : p = parent \o <<1>>
                  THEN get_leftmost_value_from(t, this, rest, seen \cup {parent})
                  ELSE recurse_right_mut(t, parent \o <<1>>)
             ELSE get_leftmost_value_from(t, this, rest, seen)

\* (mutant) the right value is not handed on
ExplodeAtLeftOnly(t, cur, parents) ==
    LET node == At(t, cur)
        left_val == IF IsNum(node[1]) THEN node[1][1] ELSE NoVal
        leftmost == get_leftmost_value_from(t, cur, parents, {})
        t1 == IF leftmost # NoPath /\ left_val # NoVal
              THEN Put(t, leftmost, TryAddValue(At(t, leftmost), left_val))
              ELSE t
    IN  Put(t1, cur, Num(0))

\* The body of explode for the node cur popped at depth >= 4 when it is a Pair.
ExplodeAt(t, cur, parents) ==
    LET node == At(t, cur)
        left_val == IF IsNum(node[1]) THEN node[1][1] ELSE NoVal
        right_val == IF IsNum(node[2]) THEN node[2][1] ELSE NoVal
        leftmost == get_leftmost_value_from(t, cur, parents, {})
        rightmost == get_rightmost_value_from(t, cur, parents, {})
        t1 == IF leftmost # NoPath /\ left_val # NoVal
              THEN Put(t, leftmost, TryAddValue(At(t, leftmost), left_val))
              ELSE t
        t2 == IF rightmost # NoPath /\ right_val # NoVal
              THEN Put(t1, rightmost, TryAddValue(At(t1, rightmost), right_val))
              ELSE t1
    IN  Put(t2, cur, Num(0))

\* The while loop of explode over the VecDeque of (depth, cur, parents).
RECURSIVE ExplodeLoop(_, _)
ExplodeLoop(t, queue) ==
    IF queue = <<>> THEN [exploded |-> FALSE, tree |-> t]
    ELSE LET e == Head(queue)
             rest == Tail(queue)
         IN  IF e.depth >= 4
             THEN IF IsNum(At(t, e.cur))
                  THEN ExplodeLoop(t, rest)
                  ELSE [exploded |-> TRUE, tree |-> ExplodeAt(t, e.cur, e.parents)]
             ELSE IF IsPair(At(t, e.cur))
                  THEN LET new_parents == Append(e.parents, e.cur)
                       IN  ExplodeLoop(t, rest \o
                             << [depth |-> e.depth + 1, cur |-> e.cur \o <<1>>,
                                 parents |-> new_parents],
                                [depth |-> e.depth + 1, cur |-> e.cur \o <<2>>,
                                 parents |-> new_parents] >>)
                  ELSE ExplodeLoop(t, rest)

Explode(t) == ExplodeLoop(t, << [depth |-> 0, cur |-> <<>>, parents |-> <<>>] >>)

\* split on one node: a Num >= 10 becomes the pair of its halves
SplitAbove10(node) ==
    IF IsNum(node) /\ node[1] > 10
    THEN LET d == node[1]
         IN  [split |-> TRUE, node |-> Pair(Num(d \div 2), Num(d - (d \div 2)))]
    ELSE [split |-> FALSE, node |-> node]

Split(node) ==
    IF IsNum(node) /\ node[1] >= 10
    THEN LET d == node[1]
             left == d \div 2
             right == IF left + (d \div 2) < d THEN (d \div 2) + 1 ELSE d \div 2
         IN  [split |-> TRUE, node |-> Pair(Num(left), Num(right))]
    ELSE [split |-> FALSE, node |-> node]

Reverse(s) == [i \in 1..Len(s) |-> s[Len(s) + 1 - i]]

\* iter_mut: the stack loop collects the Nums, the result is acc reversed
RECURSIVE IterLoop(_, _, _)
IterLoop(t, stack, acc) ==
    IF stack = <<>> THEN acc
    ELSE LET p == stack[Len(stack)]
             rest == SubSeq(stack, 1, Len(stack) - 1)
         IN  IF IsNum(At(t, p))
             THEN IterLoop(t, rest, Append(acc, p))
             ELSE IterLoop(t, rest \o <<p \o <<1>>, p \o <<2>>>>, acc)

IterMutUnreversed(t) == IterLoop(t, << <<>> >>, <<>>)

IterMut(t) == Reverse(IterLoop(t, << <<>> >>, <<>>))

\* (mutant) the last element of iter_mut whose split() acts
SplitFirstLast(t) ==
    LET it == IterMut(t)
        hits == {i \in 1..Len(it) : Split(At(t, it[i])).split}
    IN  IF hits = {} THEN [split |-> FALSE, tree |-> t]
        ELSE LET i == CHOOSE k \in hits : \A j \in hits : k >= j
             IN  [split |-> TRUE, tree |-> Put(t, it[i], Split(At(t, it[i])).node)]

\* the for loop of reduce: the first element of iter_mut whose split() acts
SplitFirst(t) ==
    LET it == IterMut(t)
        hits == {i \in 1..Len(it) : Split(At(t, it[i])).split}
    IN  IF hits = {} THEN [split |-> FALSE, tree |-> t]
        ELSE LET i == CHOOSE k \in hits : \A j \in hits : k <= j
             IN  [split |-> TRUE, tree |-> Put(t, it[i], Split(At(t, it[i])).node)]

RECURSIVE MagnitudeLeftOnly(_)
MagnitudeLeftOnly(t) == IF IsNum(t) THEN t[1] ELSE MagnitudeLeftOnly(t[1]) * 3

RECURSIVE MagnitudeSwapped(_)
MagnitudeSwapped(t) ==
    IF IsNum(t) THEN t[1] ELSE MagnitudeSwapped(t[1]) * 2 + MagnitudeSwapped(t[2]) * 3

RECURSIVE Magnitude(_)
Magnitude(t) ==
    IF IsNum(t) THEN t[1] ELSE Magnitude(t[1]) * 3 + Magnitude(t[2]) * 2

\* reduce as one call: the loop until neither explode nor a split acts
RECURSIVE ReduceLoop(_)
ReduceLoop(t) ==
    IF Explode(t).exploded THEN ReduceLoop(Explode(t).tree)
    ELSE IF SplitFirst(t).split THEN ReduceLoop(SplitFirst(t).tree)
    ELSE t

\* a + b
AddOf(a, b) == ReduceLoop(Pair(a, b))

\* cartesian_product(cloned_numbers).filter(|(a, b)| a != b): the pairs of
\* the list with itself, first entry outermost, the pairs of equal trees
\* dropped
Part2Pairs(ns) ==
    SelectSeq([k \in 1..(Len(ns) * Len(ns)) |->
                  <<ns[((k - 1) \div Len(ns)) + 1], ns[((k - 1) % Len(ns)) + 1]>>],
              LAMBDA ab : ab[1] # ab[2])

\* solve_part2: the greatest magnitude of a + b over these pairs, None
\* (<<>>) when there is no pair
SolvePart2Of(ns) ==
    LET pairs == Part2Pairs(ns)
        mags == {Magnitude(AddOf(pairs[k][1], pairs[k][2])) : k \in 1..Len(pairs)}
    IN  IF mags = {} THEN <<>> ELSE <<CHOOSE m \in mags : \A n \in mags : n <= m>>

---------------------------------------------------------------------------
\* Inputs of day18: the trees of the repository's tests and a family of
\* nested trees.
MaxNest == 4
LeafVals == {1, 9}

RECURSIVE Nest(_, _, _, _)
Nest(s, k, side, fill) ==
    IF k = 0 THEN s
    ELSE IF side = 1 THEN Pair(Nest(s, k - 1, side, fill), Num(fill))
    ELSE Pair(Num(fill), Nest(s, k - 1, side, fill))

SmallTrees ==
    {Num(v) : v \in LeafVals} \cup {Pair(Num(v), Num(w)) : v \in LeafVals, w \in LeafVals}

NestedTrees ==
    {Nest(s, k, side, fill) : s \in SmallTrees, k \in 0..MaxNest,
                              side \in {1, 2}, fill \in LeafVals}

N(n) == Num(n)
P(a, b) == Pair(a, b)
SampleTrees == {
    \* lib.rs test_snailfish_split
    N(10), N(11), N(21),
    \* lib.rs test_snailfish_explode
    P(P(P(P(P(N(9),N(8)),N(1)),N(2)),N(3)),N(4)),
    P(P(P(P(N(1),P(N(9),N(8))),N(2)),N(3)),N(4)),
    \* lib.rs test_magnitude / magnitude doc test
    P(N(9),N(1)),
    P(P(N(1),N(2)),P(P(N(3),N(4)),N(5))),
    P(P(P(P(N(0),N(7)),N(4)),P(P(N(7),N(8)),P(N(6),N(0)))),P(N(8),N(1))),
    \* lib.rs test_reduce
    P(P(P(N(0),P(N(4),N(5))),P(N(0),N(0))),P(P(P(N(4),N(5)),P(N(2),N(6))),P(N(9),N(5)))),
    P(N(7),P(P(P(N(3),N(7)),P(N(4),N(3))),P(P(N(6),N(3)),P(N(8),N(8))))),
    \* the worked example of the reduction
    P(P(P(P(N(4),N(3)),N(4)),N(4)),P(N(7),P(P(N(8),N(4)),N(9)))),
    P(N(1),N(1)) }

\* trees all of whose leaves are 0
ZeroTrees == {N(0), P(N(0),N(0)), P(P(N(0),N(0)),N(0))}

InputTrees == SampleTrees \cup NestedTrees \cup ZeroTrees

\* the lists handed to solve_part2: up to MaxList numbers
MaxList == 3
Part2Trees == {
    P(N(1),N(1)),
    P(P(N(9),N(9)),P(N(9),N(9))),
    P(P(P(P(N(4),N(3)),N(4)),N(4)),P(N(7),P(P(N(8),N(4)),N(9)))) }
NumberLists == UNION {[1..n -> Part2Trees] : n \in 0..MaxList}

Init18 ==
    /\ day = 18
    /\ Idle15 /\ Idle16
    /\ sf \in InputTrees
    /\ operands = <<>>
    /\ pc18 = "idle"
    /\ lastOp = "none"
    /\ mag = -1
    /\ prev = <<>> /\ numbers = <<>> /\ part2 = <<>>

\* impl Add: Pair(self, rhs).reduce() -- builds the pair and enters reduce
Add ==
    /\ day = 18 /\ pc18 = "idle"
    /\ \E rhs \in InputTrees :
         /\ sf' = Pair(sf, rhs)
         /\ operands' = <<sf, rhs>>
    /\ pc18' = "reduce"
    /\ UNCHANGED <<day, vars15, vars16, lastOp, mag, prev, numbers, part2>>

\* reduce called on self directly: on an input, or once more on what a
\* first call of reduce returned
Reduce ==
    /\ day = 18
    /\ \/ pc18 = "idle" /\ prev' = prev
       \/ pc18 = "done" /\ prev = <<>> /\ prev' = sf
    /\ pc18' = "reduce"
    /\ UNCHANGED <<day, vars15, vars16, sf, operands, lastOp, mag, numbers, part2>>

\* one iteration of reduce's loop in which explode() returns true
ReduceExplode ==
    /\ day = 18 /\ pc18 = "reduce"
    /\ Explode(sf).exploded
    /\ sf' = Explode(sf).tree
    /\ lastOp' = "explode"
    /\ UNCHANGED <<day, vars15, vars16, operands, pc18, mag, prev, numbers, part2>>

\* (mutant) the splits are tried without explode() being called first
ReduceSplitFirst ==
    /\ day = 18 /\ pc18 = "reduce"
    /\ SplitFirst(sf).split
    /\ sf' = SplitFirst(sf).tree
    /\ lastOp' = "split"
    /\ UNCHANGED <<day, vars15, vars16, operands, pc18, mag, prev, numbers, part2>>

\* one iteration in which explode() returns false and some split() acts
ReduceSplit ==
    /\ day = 18 /\ pc18 = "reduce"
    /\ ~Explode(sf).exploded
    /\ SplitFirst(sf).split
    /\ sf' = SplitFirst(sf).tree
    /\ lastOp' = "split"
    /\ UNCHANGED <<day, vars15, vars16, operands, pc18, mag, prev, numbers, part2>>

\* (mutant) a break that does not wait for the rewrites to be exhausted
ReduceBreakAnywhere ==
    /\ day = 18 /\ pc18 = "reduce"
    /\ pc18' = "done"
    /\ UNCHANGED <<day, vars15, vars16, sf, operands, lastOp, mag, prev, numbers, part2>>

\* (mutant) a loop without a break: the iteration in which nothing applies
\* goes round again
ReduceBreakAgain ==
    /\ day = 18 /\ pc18 = "reduce"
    /\ ~Explode(sf).exploded
    /\ ~SplitFirst(sf).split
    /\ lastOp' = IF lastOp = "again" THEN "none" ELSE "again"
    /\ UNCHANGED <<day, vars15, vars16, sf, operands, pc18, mag, prev, numbers, part2>>

\* the iteration in which neither acts: break, reduce returns self
ReduceBreak ==
    /\ day = 18 /\ pc18 = "reduce"
    /\ ~Explode(sf).exploded
    /\ ~SplitFirst(sf).split
    /\ pc18' = "done"
    /\ UNCHANGED <<day, vars15, vars16, sf, operands, lastOp, mag, prev, numbers, part2>>

\* magnitude() of a tree: of an input, or of what reduce returned
CallMagnitude ==
    /\ day = 18 /\ pc18 \in {"idle", "done"}
    /\ mag' = Magnitude(sf)
    /\ pc18' = "mag"
    /\ UNCHANGED <<day, vars15, vars16, sf, operands, lastOp, prev, numbers, part2>>

\* solve_part2 on a list of numbers
SolvePart2 ==
    /\ day = 18 /\ pc18 = "idle"
    /\ \E ns \in NumberLists :
         /\ numbers' = ns
         /\ part2' = SolvePart2Of(ns)
    /\ pc18' = "part2"
    /\ UNCHANGED <<day, vars15, vars16, sf, operands, lastOp, mag, prev>>

Next18 ==
    \/ Add \/ Reduce \/ ReduceExplode \/ ReduceSplit \/ ReduceBreak \/ CallMagnitude
    \/ SolvePart2

(***************************************************************************)
(*                              day15                                      *)
(***************************************************************************)

\* Point { x, y, value }
Point(x, y, value) == [x |-> x, y |-> y, value |-> value]
NoPoint == Point(-1, -1, -1)

\* char::to_digit(10): the digit's value, -1 for None
ToDigit(ch) ==
    CASE ch = "0" -> 0 [] ch = "1" -> 1 [] ch = "2" -> 2 [] ch = "3" -> 3
      [] ch = "4" -> 4 [] ch = "5" -> 5 [] ch = "6" -> 6 [] ch = "7" -> 7
      [] ch = "8" -> 8 [] ch = "9" -> 9 [] OTHER -> -1

\* impl FromStr for Input: one Point per char, x counting the chars of a
\* line from 0 and y the lines from 0; Err(()) at the first char that is
\* not a digit.
RECURSIVE FromStrLine(_, _, _)
FromStrLine(line, y, x) ==
    IF x >= Len(line) THEN <<>>
    ELSE <<Point(x, y, ToDigit(line[x + 1]))>> \o FromStrLine(line, y, x + 1)

RECURSIVE FromStrLines(_, _)
FromStrLines(lines, y) ==
    IF y >= Len(lines) THEN <<>>
    ELSE FromStrLine(lines[y + 1], y, 0) \o FromStrLines(lines, y + 1)

FromStr(s) ==
    LET acc == FromStrLines(s, 0)
    IN  IF \E i \in 1..Len(acc) : acc[i].value = -1
        THEN [ok |-> FALSE, input |-> <<>>]
        ELSE [ok |-> TRUE, input |-> acc]

\* get_point: the first point of the Vec with these coordinates
get_point(in, x, y) ==
    LET hits == {i \in 1..Len(in) : in[i].x = x /\ in[i].y = y}
    IN  IF hits = {} THEN NoPoint
        ELSE in[CHOOSE i \in hits : \A j \in hits : i <= j]

Max(S) == CHOOSE m \in S : \A n \in S : n <= m
Min(S) == CHOOSE m \in S : \A n \in S : m <= n

get_width(in) == IF in = <<>> THEN 0 ELSE Max({in[i].x + 1 : i \in 1..Len(in)})
get_height(in) == IF in = <<>> THEN 0 ELSE Max({in[i].y + 1 : i \in 1..Len(in)})

\* Edge((from, to)); into_weighted_edge gives (from, to, to.value)
Edge(a, b) == [from |-> a, to |-> b]
IntoWeightedEdge(e) == [from |-> e.from, to |-> e.to, weight |-> e.to.value]

\* into_edges: per point, in order, the edge to the point below and the edge
\* to the point on the right, where these exist
EdgesOfPoint(in, point) ==
    LET down == get_point(in, point.x, point.y + 1)
        right == get_point(in, point.x + 1, point.y)
    IN  (IF down # NoPoint THEN <<Edge(point, down)>> ELSE <<>>)
        \o (IF right # NoPoint THEN <<Edge(point, right)>> ELSE <<>>)

RECURSIVE IntoEdgesFrom(_, _)
IntoEdgesFrom(in, i) ==
    IF i > Len(in) THEN <<>>
    ELSE EdgesOfPoint(in, in[i]) \o IntoEdgesFrom(in, i + 1)

IntoEdges(in) == IntoEdgesFrom(in, 1)

\* scale: for every point and every block (scalar_x, scalar_y) other than
\* (0, 0) a new point is appended after the original ones
\* (mutant) the new value without the shift that keeps it in 1..9
ScaledPointMod9(point, width, height, scalar_x, scalar_y) ==
    Point(point.x + width * scalar_x,
          point.y + height * scalar_y,
          (point.value + scalar_x + scalar_y) % 9)

ScaledPoint(point, width, height, scalar_x, scalar_y) ==
    Point(point.x + width * scalar_x,
          point.y + height * scalar_y,
          ((point.value + scalar_x + scalar_y - 1) % 9) + 1)

\* (mutant) the block (0, 0) is not skipped
RECURSIVE ScaleBlocksAll(_, _, _, _, _)
ScaleBlocksAll(point, width, height, times, k) ==
    IF k >= times * times THEN <<>>
    ELSE <<ScaledPoint(point, width, height, k % times, k \div times)>>
         \o ScaleBlocksAll(point, width, height, times, k + 1)

RECURSIVE ScaleBlocks(_, _, _, _, _)
ScaleBlocks(point, width, height, times, k) ==
    \* k counts the blocks row by row: scalar_y = k \div times, scalar_x = k % times
    IF k >= times * times THEN <<>>
    ELSE (IF k = 0 THEN <<>>
          ELSE <<ScaledPoint(point, width, height, k % times, k \div times)>>)
         \o ScaleBlocks(point, width, height, times, k + 1)

RECURSIVE ScaleNewPoints(_, _, _, _, _)
ScaleNewPoints(in, width, height, times, i) ==
    IF i > Len(in) THEN <<>>
    ELSE ScaleBlocks(in[i], width, height, times, 0)
         \o ScaleNewPoints(in, width, height, times, i + 1)

ScaleInput(in, times) ==
    in \o ScaleNewPoints(in, get_width(in), get_height(in), times, 1)

\* UnGraphMap::from_edges: nodes in insertion order; per node the list of
\* (neighbour, direction) in insertion order; an edge already present is
\* not added again.
EmptyGraph == [nodes |-> <<>>, adj |-> <<>>, keys |-> {}]

NodeIndex(g, n) ==
    LET hits == {i \in 1..Len(g.nodes) : g.nodes[i] = n}
    IN  IF hits = {} THEN 0 ELSE CHOOSE i \in hits : TRUE

PushAdj(g, a, entry) ==
    IF NodeIndex(g, a) = 0
    THEN [g EXCEPT !.nodes = Append(@, a), !.adj = Append(@, <<entry>>)]
    ELSE [g EXCEPT !.adj[NodeIndex(g, a)] = Append(@, entry)]

AddEdge(g, we) ==
    IF {we.from, we.to} \in g.keys THEN g
    ELSE LET g1 == PushAdj([g EXCEPT !.keys = @ \cup {{we.from, we.to}}],
                           we.from, [n |-> we.to, dir |-> "Outgoing"])
         IN  IF we.from # we.to
             THEN PushAdj(g1, we.to, [n |-> we.from, dir |-> "Incoming"])
             ELSE g1

RECURSIVE FromEdgesLoop(_, _, _)
FromEdgesLoop(g, edges, i) ==
    IF i > Len(edges) THEN g
    ELSE FromEdgesLoop(AddEdge(g, IntoWeightedEdge(edges[i])), edges, i + 1)

FromEdges(edges) == FromEdgesLoop(EmptyGraph, edges, 1)

\* (mutant) the edges of a directed map: only the entries the node's own
\* edges put in its list
GraphEdgesOutgoing(g, node) ==
    LET l == SelectSeq(g.adj[NodeIndex(g, node)], LAMBDA e : e.dir = "Outgoing")
    IN  [i \in 1..Len(l) |-> [source |-> node, target |-> l[i].n]]

\* graph.edges(node) of an undirected map: (node, neighbour) for every entry
\* of the node's list, whichever its direction
GraphEdges(g, node) ==
    LET l == g.adj[NodeIndex(g, node)]
    IN  [i \in 1..Len(l) |-> [source |-> node, target |-> l[i].n]]

\* nodes().find(|point| point.x == 0 && point.y == 0)
FindStart(g) ==
    LET hits == {i \in 1..Len(g.nodes) : g.nodes[i].x = 0 /\ g.nodes[i].y = 0}
    IN  IF hits = {} THEN NoPoint ELSE g.nodes[Min(hits)]

\* nodes().reduce(...): the node with the greatest (x, y), the later one kept
\* only when strictly greater
RECURSIVE FindEndLoop(_, _, _)
FindEndLoop(g, acc, i) ==
    IF i > Len(g.nodes) THEN acc
    ELSE LET point == g.nodes[i]
         IN  FindEndLoop(g,
                 IF point.x > acc.x \/ (point.x = acc.x /\ point.y > acc.y)
                 THEN point ELSE acc,
                 i + 1)

\* (mutant) the comparison of the reduce turned round: the least node
FindEndLeast(g) == FindStart(g)

FindEnd(g) == FindEndLoop(g, g.nodes[1], 2)

\* (mutant) the cost read from the weight stored on the edge: the value of
\* the second point of the pair the edge was built from
EdgeCostStoredWeight(edge) ==
    IF edge.target.x + edge.target.y > edge.source.x + edge.source.y
    THEN edge.target.value ELSE edge.source.value

\* the closures handed to astar
EdgeCost(edge) == edge.target.value
EstimateCost(end, point) == end.y - point.y + end.x - point.x

\* u32 arithmetic.  A number below 0 stands for itself plus 2^32, the value a
\* wrapping subtraction leaves; adding to it wraps back when the sum is >= 0.
\* With overflow checks the subtraction panics instead:
\* (end.y - point.y), then (.. + end.x) - point.x.
EstimateOverflows(end, point) ==
    end.y < point.y \/ end.y - point.y + end.x < point.x

\* Ord for the u32 scores of MinScored
U32LessEq(a, b) == IF (a < 0) = (b < 0) THEN a <= b ELSE a >= 0

\* the estimate of some edge of the for loop overflows
ExpandOverflows(edges, end, vis) ==
    \E i \in 1..Len(edges) :
        edges[i].target \notin vis /\ EstimateOverflows(end, edges[i].target)

\* astar's for loop over graph.edges(node): st is [scores, visit_next]
RECURSIVE AstarExpand(_, _, _, _, _, _)
AstarExpand(edges, i, node_score, end, vis, st) ==
    IF i > Len(edges) THEN st
    ELSE LET next == edges[i].target
         IN  IF next \in vis
             THEN AstarExpand(edges, i + 1, node_score, end, vis, st)
             ELSE LET cand == node_score + EdgeCost(edges[i])
                      next_score ==
                          IF next \in DOMAIN st.scores /\ st.scores[next] <= cand
                          THEN st.scores[next] ELSE cand
                      entry == [score |-> next_score + EstimateCost(end, next),
                                node |-> next]
                  IN  AstarExpand(edges, i + 1, node_score, end, vis,
                        [scores |-> [n \in DOMAIN st.scores \cup {next} |->
                                        IF n = next THEN next_score ELSE st.scores[n]],
                         visit_next |-> st.visit_next \cup {entry}])

---------------------------------------------------------------------------
\* Inputs of day15: every rectangular text of at most MaxCells cells over
\* the digits 1 and 9 with at most MaxWalls 9s, and the text of the tests.
MaxCells == 10
MaxWalls == 2
MaxFactor == 3

Shapes == {wh \in (1..MaxCells) \X (1..MaxCells) : wh[1] * wh[2] <= MaxCells}

RectTexts ==
    UNION { {t \in [1..wh[2] -> [1..wh[1] -> {"1", "9"}]] :
                Cardinality({c \in (1..wh[2]) \X (1..wh[1]) : t[c[1]][c[2]] = "9"})
                    <= MaxWalls}
            : wh \in Shapes }

SampleTexts == { << <<"3", "4", "5">>, <<"6", "7", "8">> >> }

\* rectangular texts in which at most MaxWalls cells hold the digit 0
ZeroTexts ==
    UNION { {t \in [1..wh[2] -> [1..wh[1] -> {"1", "0"}]] :
                Cardinality({c \in (1..wh[2]) \X (1..wh[1]) : t[c[1]][c[2]] = "0"})
                    \in 1..MaxWalls}
            : wh \in Shapes }

\* the empty text, texts whose lines differ in length, a text of one empty
\* line, and texts with a char that is no digit
OddTexts == {
    <<>>,
    << <<>> >>,
    << <<"1", "2">>, <<"3">> >>,
    << <<"1">>, <<"2", "3">> >>,
    << <<"1", "2", "3">>, <<"4", "5">>, <<"6">> >>,
    << <<"1", "2">>, <<>>, <<"3", "4">> >>,
    << <<"1">>, <<"2", "3", "4">>, <<"5", "6">> >>,
    << <<"1", "x">> >>,
    << <<"1", "2">>, <<"3", "-">> >> }

GridTexts == RectTexts \cup SampleTexts \cup ZeroTexts \cup OddTexts

Init15 ==
    /\ day = 15
    /\ Idle18 /\ Idle16
    /\ text \in GridTexts
    /\ input = <<>> /\ factor = 0 /\ pc15 = "start"
    /\ graph = <<>> /\ goal = <<>> /\ visited = {} /\ visit_next = {}
    /\ scores = <<>> /\ distance = -1
    /\ overflow_checks \in BOOLEAN

\* main: INPUT.parse::<day15::Input>()
Parse ==
    /\ day = 15 /\ pc15 = "start"
    /\ input' = FromStr(text).input
    /\ pc15' = IF FromStr(text).ok THEN "parsed" ELSE "parse_err"
    /\ UNCHANGED <<day, vars18, vars16, text, factor, graph, goal, visited, visit_next,
                   scores, distance, overflow_checks>>

\* input.scale(times)
Scale ==
    /\ day = 15 /\ pc15 = "parsed"
    /\ \E times \in 1..MaxFactor :
         /\ input' = ScaleInput(input, times)
         /\ factor' = times
    /\ pc15' = "scaled"
    /\ UNCHANGED <<day, vars18, vars16, text, graph, goal, visited, visit_next, scores,
                   distance, overflow_checks>>

\* solve_part1 up to the call of astar, and astar's own initialisation; the
\* search is run on grids of at most MaxCells cells
SolveStart ==
    /\ day = 15 /\ pc15 \in {"parsed", "scaled"}
    /\ Len(input) <= MaxCells
    /\ LET g == FromEdges(IntoEdges(input))
           start == FindStart(g)
       IN  /\ graph' = g
           /\ IF g.nodes = <<>> \/ start = NoPoint
              THEN /\ pc15' = "panic"
                   /\ UNCHANGED <<goal, visited, visit_next, scores>>
              ELSE /\ pc15' = "astar"
                   /\ goal' = FindEnd(g)
                   /\ visited' = {}
                   /\ scores' = [n \in {start} |-> 0]
                   /\ visit_next' = {[score |-> EstimateCost(FindEnd(g), start),
                                      node |-> start]}
    /\ UNCHANGED <<day, vars18, vars16, text, input, factor, distance, overflow_checks>>

\* one iteration of astar's while loop: pop a MinScored entry of least
\* score; with the heap empty astar returns None and the expect panics
AstarStep ==
    /\ day = 15 /\ pc15 = "astar"
    /\ IF visit_next = {}
       THEN /\ pc15' = "panic"
            /\ UNCHANGED <<visited, visit_next, scores, distance>>
       ELSE \E m \in visit_next :
         /\ \A o \in visit_next : U32LessEq(m.score, o.score)
         /\ IF m.node = goal
            THEN /\ distance' = scores[m.node]
                 /\ pc15' = "done"
                 /\ visit_next' = visit_next \ {m}
                 /\ UNCHANGED <<visited, scores>>
            ELSE IF m.node \in visited
            THEN /\ visit_next' = visit_next \ {m}
                 /\ UNCHANGED <<visited, scores, distance, pc15>>
            ELSE IF overflow_checks
                    /\ ExpandOverflows(GraphEdges(graph, m.node), goal,
                                       visited \cup {m.node})
            THEN /\ pc15' = "panic"
                 /\ UNCHANGED <<visited, visit_next, scores, distance>>
            ELSE LET st == AstarExpand(GraphEdges(graph, m.node), 1, scores[m.node],
                                       goal, visited \cup {m.node},
                                       [scores |-> scores,
                                        visit_next |-> visit_next \ {m}])
                 IN  /\ visited' = visited \cup {m.node}
                     /\ scores' = st.scores
                     /\ visit_next' = st.visit_next
                     /\ UNCHANGED <<distance, pc15>>
    /\ UNCHANGED <<day, vars18, vars16, text, input, factor, graph, goal, overflow_checks>>

Next15 == Parse \/ Scale \/ SolveStart \/ AstarStep


(***************************************************************************)
(*                              day16                                      *)
(***************************************************************************)

\* The iterator over the chars of the bit string is the sequence of the
\* chars not yet consumed; the chars '0' and '1' are the numbers 0 and 1.
Take(it, n) == SubSeq(it, 1, IF n < Len(it) THEN n ELSE Len(it))
Drop(it, n) == SubSeq(it, (IF n < Len(it) THEN n ELSE Len(it)) + 1, Len(it))

\* from_str_radix(digits, 2): the number the digits spell, most significant
\* first, and an error (-1) for the empty string
RECURSIVE BinValue(_)
BinValue(digits) ==
    IF digits = <<>> THEN 0
    ELSE 2 * BinValue(SubSeq(digits, 1, Len(digits) - 1)) + digits[Len(digits)]

FromStrRadix2(digits) == IF digits = <<>> THEN -1 ELSE BinValue(digits)

\* A string of bytes, most significant first, is the natural number it
\* spells in base 256, whatever its length and its leading zeros.
RECURSIVE StripZeros(_)
StripZeros(bs) == IF bs # <<>> /\ Head(bs) = 0 THEN StripZeros(Tail(bs)) ELSE bs

RECURSIVE Zeros(_)
Zeros(n) == IF n <= 0 THEN <<>> ELSE <<0>> \o Zeros(n - 1)

PadTo(bs, n) == Zeros(n - Len(bs)) \o bs

\* the sum of two strings of one length and a carry, one byte longer
RECURSIVE BytesAdd(_, _, _)
BytesAdd(a, b, carry) ==
    IF a = <<>> THEN <<carry>>
    ELSE LET n == Len(a)
             s == a[n] + b[n] + carry
         IN  BytesAdd(SubSeq(a, 1, n - 1), SubSeq(b, 1, n - 1), s \div 256)
             \o <<s % 256>>

\* a string times one byte, plus a carry, one byte longer
RECURSIVE BytesTimes(_, _, _)
BytesTimes(a, d, carry) ==
    IF a = <<>> THEN <<carry>>
    ELSE LET n == Len(a)
             s == a[n] * d + carry
         IN  BytesTimes(SubSeq(a, 1, n - 1), d, s \div 256) \o <<s % 256>>

NatAdd(x, y) ==
    LET n == IF Len(x) > Len(y) THEN Len(x) ELSE Len(y)
    IN  StripZeros(BytesAdd(PadTo(x, n), PadTo(y, n), 0))

\* x * y, one byte of y after the other from the most significant
RECURSIVE NatMulFrom(_, _, _, _)
NatMulFrom(x, y, j, acc) ==
    IF j > Len(y) THEN acc
    ELSE NatMulFrom(x, y, j + 1, NatAdd(acc \o <<0>>, BytesTimes(x, y[j], 0)))

NatMul(x, y) == NatMulFrom(x, y, 1, <<>>)

\* A u64 is its eight bytes, most significant first (to_be_bytes): u64::MAX
\* is 2^64 - 1 = 18446744073709551615, eight bytes 255, and u64::MIN is 0.
U64_MAX == <<255, 255, 255, 255, 255, 255, 255, 255>>
U64_MIN == <<0, 0, 0, 0, 0, 0, 0, 0>>

\* the u64 of a number 0 <= n < 2^31
U64(n) ==
    <<0, 0, 0, 0, n \div 16777216, (n \div 65536) % 256, (n \div 256) % 256, n % 256>>

\* the low 64 bits of a natural number
Wrap64(x) == LET p == PadTo(x, 8) IN SubSeq(p, Len(p) - 7, Len(p))

\* + and * of two u64: the low 64 bits of the result, and whether the
\* result needs more (a panic where overflow checks are compiled in, the
\* wrapped value where they are not)
U64Add(a, b) ==
    LET r == NatAdd(a, b) IN [overflow |-> Len(r) > 8, v |-> Wrap64(r)]
U64Mul(a, b) ==
    LET r == NatMul(a, b) IN [overflow |-> Len(r) > 8, v |-> Wrap64(r)]

\* < of two u64
U64Less(a, b) == \E i \in 1..8 : a[i] < b[i] /\ \A j \in 1..(i - 1) : a[j] = b[j]

\* u64::from_str_radix(digits, 2): the u64 the digits spell, most
\* significant first; an error (<<>>) for the empty string and for a number
\* of more than 64 bits
U64FromStrRadix2(digits) ==
    LET b == PadTo(StripZeros(digits), 64)
    IN  IF digits = <<>> \/ Len(b) > 64 THEN <<>>
        ELSE <<BinValue(SubSeq(b, 1, 8)), BinValue(SubSeq(b, 9, 16)),
               BinValue(SubSeq(b, 17, 24)), BinValue(SubSeq(b, 25, 32)),
               BinValue(SubSeq(b, 33, 40)), BinValue(SubSeq(b, 41, 48)),
               BinValue(SubSeq(b, 49, 56)), BinValue(SubSeq(b, 57, 64))>>

\* PacketVersion::from_iterator: take(3), parsed; None (v = -1) on an error
PacketVersionFromIterator(it) ==
    [v |-> FromStrRadix2(Take(it, 3)), rest |-> Drop(it, 3)]

TotalLengthInBits(n) == [kind |-> "TotalLengthInBits", n |-> n]
SubpacketCount(n) == [kind |-> "SubpacketCount", n |-> n]

\* LengthType::from_iterator: next() and the parse of the 15 or 11 chars are
\* both followed by expect
LengthTypeFromIterator(it) ==
    IF it = <<>> THEN [panic |-> TRUE, rest |-> it]
    ELSE LET width == IF Head(it) = 0 THEN 15 ELSE 11
             n == FromStrRadix2(Take(Tail(it), width))
         IN  IF n = -1 THEN [panic |-> TRUE, rest |-> Drop(Tail(it), width)]
             ELSE [panic |-> FALSE,
                   length_type |-> IF Head(it) = 0 THEN TotalLengthInBits(n)
                                   ELSE SubpacketCount(n),
                   rest |-> Drop(Tail(it), width)]

\* OperatorType::from_type_id
OperatorTypeFromTypeId(type_id) ==
    CASE type_id = 0 -> "Sum" [] type_id = 1 -> "Product"
      [] type_id = 2 -> "Minimum" [] type_id = 3 -> "Maximum"
      [] type_id = 5 -> "GreaterThan" [] type_id = 6 -> "LessThan"
      [] type_id = 7 -> "EqualTo" [] OTHER -> "None"

Literal(v) == [kind |-> "Literal", value |-> v]
Operator(length_type, op) == [kind |-> "Operator", length_type |-> length_type, op |-> op]

\* the loop of the literal: a char '1' takes four more chars and goes on,
\* anything else (a '0', or the end of the stream) takes four and stops
RECURSIVE LiteralLoopLeastFirst(_, _)
LiteralLoopLeastFirst(it, s) ==
    IF it # <<>> /\ Head(it) = 1
    THEN LiteralLoopLeastFirst(Drop(Tail(it), 4), Take(Tail(it), 4) \o s)
    ELSE LET after == IF it = <<>> THEN it ELSE Tail(it)
         IN  [s |-> Take(after, 4) \o s, rest |-> Drop(after, 4)]

RECURSIVE LiteralLoop(_, _)
LiteralLoop(it, s) ==
    IF it # <<>> /\ Head(it) = 1
    THEN LiteralLoop(Drop(Tail(it), 4), s \o Take(Tail(it), 4))
    ELSE LET after == IF it = <<>> THEN it ELSE Tail(it)
         IN  [s |-> s \o Take(after, 4), rest |-> Drop(after, 4)]

\* MessageType::from_iterator: st is "some", "none" or "panic"
MessageTypeFromIterator(it) ==
    LET type_id == FromStrRadix2(Take(it, 3))
        after == Drop(it, 3)
    IN  IF type_id = -1 THEN [st |-> "none", rest |-> after]
        ELSE IF type_id = 4
        THEN LET lit == LiteralLoop(after, <<>>)
             IN  IF U64FromStrRadix2(lit.s) = <<>>
                 THEN [st |-> "none", rest |-> lit.rest]
                 ELSE [st |-> "some", message_type |-> Literal(U64FromStrRadix2(lit.s)),
                       rest |-> lit.rest]
        ELSE LET lt == LengthTypeFromIterator(after)
             IN  IF lt.panic THEN [st |-> "panic", rest |-> lt.rest]
                 ELSE IF OperatorTypeFromTypeId(type_id) = "None"
                 THEN [st |-> "none", rest |-> lt.rest]
                 ELSE [st |-> "some",
                       message_type |-> Operator(lt.length_type,
                                                 OperatorTypeFromTypeId(type_id)),
                       rest |-> lt.rest]

Packet(version, message_type, body) ==
    [version |-> version, message_type |-> message_type, body |-> body]

RECURSIVE PacketFromIterator(_)
RECURSIVE WhileSome(_, _)
RECURSIVE ForCount(_, _, _)

\* while let Some(packet) = Packet::from_iterator(bytes) { push }
WhileSome(bytes, subpackets) ==
    LET r == PacketFromIterator(bytes)
    IN  IF r.st = "some" THEN WhileSome(r.rest, Append(subpackets, r.packet))
        ELSE IF r.st = "panic" THEN [panic |-> TRUE, body |-> subpackets]
        ELSE [panic |-> FALSE, body |-> subpackets]

\* for _ in 0..count { if let Some(packet) = Packet::from_iterator(iterator) { push } }
\* (on an exhausted iterator every remaining round gets None and pushes
\* nothing: the rounds are not unfolded)
ForCount(it, count, subpackets) ==
    IF count = 0 \/ it = <<>> THEN [panic |-> FALSE, body |-> subpackets, rest |-> it]
    ELSE LET r == PacketFromIterator(it)
         IN  IF r.st = "panic" THEN [panic |-> TRUE, body |-> subpackets, rest |-> r.rest]
             ELSE ForCount(r.rest, count - 1,
                           IF r.st = "some" THEN Append(subpackets, r.packet)
                           ELSE subpackets)

\* Packet::from_iterator: [st, packet, rest] with st "some", "none" or "panic"
PacketFromIterator(it) ==
    LET ver == PacketVersionFromIterator(it)
    IN  IF ver.v = -1 THEN [st |-> "none", rest |-> ver.rest]
        ELSE LET mt == MessageTypeFromIterator(ver.rest)
             IN  IF mt.st # "some" THEN [st |-> mt.st, rest |-> mt.rest]
                 ELSE IF mt.message_type.kind = "Literal"
                 THEN [st |-> "some", packet |-> Packet(ver.v, mt.message_type, <<>>),
                       rest |-> mt.rest]
                 ELSE IF mt.message_type.length_type.kind = "TotalLengthInBits"
                 THEN LET n == mt.message_type.length_type.n
                          sub == WhileSome(Take(mt.rest, n), <<>>)
                      IN  IF sub.panic THEN [st |-> "panic", rest |-> Drop(mt.rest, n)]
                          ELSE [st |-> "some",
                                packet |-> Packet(ver.v, mt.message_type, sub.body),
                                rest |-> Drop(mt.rest, n)]
                 ELSE LET sub == ForCount(mt.rest, mt.message_type.length_type.n, <<>>)
                      IN  IF sub.panic THEN [st |-> "panic", rest |-> sub.rest]
                          ELSE [st |-> "some",
                                packet |-> Packet(ver.v, mt.message_type, sub.body),
                                rest |-> sub.rest]

\* from_hex_str's mapper: to_digit(16) and format!("{:04b}"); <<>> for None
HexDigitBits(c) ==
    CASE c = "0" -> <<0,0,0,0>> [] c = "1" -> <<0,0,0,1>> [] c = "2" -> <<0,0,1,0>>
      [] c = "3" -> <<0,0,1,1>> [] c = "4" -> <<0,1,0,0>> [] c = "5" -> <<0,1,0,1>>
      [] c = "6" -> <<0,1,1,0>> [] c = "7" -> <<0,1,1,1>> [] c = "8" -> <<1,0,0,0>>
      [] c = "9" -> <<1,0,0,1>> [] c = "A" -> <<1,0,1,0>> [] c = "B" -> <<1,0,1,1>>
      [] c = "C" -> <<1,1,0,0>> [] c = "D" -> <<1,1,0,1>> [] c = "E" -> <<1,1,1,0>>
      [] c = "F" -> <<1,1,1,1>>
      [] c = "a" -> <<1,0,1,0>> [] c = "b" -> <<1,0,1,1>> [] c = "c" -> <<1,1,0,0>>
      [] c = "d" -> <<1,1,0,1>> [] c = "e" -> <<1,1,1,0>> [] c = "f" -> <<1,1,1,1>>
      [] OTHER -> <<>>

RECURSIVE HexJoin(_)
HexJoin(hexstr) ==
    IF hexstr = <<>> THEN <<>> ELSE HexDigitBits(Head(hexstr)) \o HexJoin(Tail(hexstr))

HexValid(hexstr) == \A i \in 1..Len(hexstr) : HexDigitBits(hexstr[i]) # <<>>

\* value(): [panic, v] with v a u64; a panic of a subpacket's value() is
\* the caller's
Ok(v) == [panic |-> FALSE, v |-> v]
Panicked == [panic |-> TRUE, v |-> U64_MIN]

\* the closures of the four folds of value(): the next accumulator, and
\* whether computing it overflows
FoldStep(op, acc, value) ==
    CASE op = "Sum" -> U64Add(acc, value)
      [] op = "Product" -> U64Mul(acc, value)
      [] op = "Minimum" ->
            [overflow |-> FALSE, v |-> IF U64Less(value, acc) THEN value ELSE acc]
      [] op = "Maximum" ->
            [overflow |-> FALSE, v |-> IF U64Less(acc, value) THEN value ELSE acc]

RECURSIVE Value(_)
RECURSIVE FoldValue(_, _, _, _)

\* (mutant) a fold that ends with 0 whatever it was started with
RECURSIVE FoldValueFromZero(_, _, _, _)
FoldValueFromZero(op, body, i, acc) ==
    IF i > Len(body) THEN Ok(U64_MIN)
    ELSE LET next == Value(body[i])
         IN  IF next.panic THEN Panicked
             ELSE LET step == FoldStep(op, acc, next.v)
                  IN  IF step.overflow /\ overflow_checks THEN Panicked
                      ELSE FoldValueFromZero(op, body, i + 1, step.v)

\* self.subpackets().fold(init, f) for the four folds of value(): an
\* overflowing + or * panics in a build with overflow checks and wraps in a
\* build without
FoldValue(op, body, i, acc) ==
    IF i > Len(body) THEN Ok(acc)
    ELSE LET next == Value(body[i])
         IN  IF next.panic THEN Panicked
             ELSE LET step == FoldStep(op, acc, next.v)
                  IN  IF step.overflow /\ overflow_checks THEN Panicked
                      ELSE FoldValue(op, body, i + 1, step.v)

BoolIntoAlwaysOne(b) == U64(1)

\* bool into u64
BoolInto(b) == IF b THEN U64(1) ELSE U64(0)

Value(p) ==
    IF p.message_type.kind = "Literal" THEN Ok(p.message_type.value)
    ELSE LET op == p.message_type.op
         IN  CASE op = "Sum" -> FoldValue(op, p.body, 1, U64(0))
               [] op = "Product" -> FoldValue(op, p.body, 1, U64(1))
               [] op = "Minimum" -> FoldValue(op, p.body, 1, U64_MAX)
               [] op = "Maximum" -> FoldValue(op, p.body, 1, U64_MIN)
               [] OTHER ->
                    IF Len(p.body) # 2 THEN Panicked
                    ELSE LET a == Value(p.body[1])
                         IN  IF a.panic THEN Panicked
                             ELSE LET b == Value(p.body[2])
                                  IN  IF b.panic THEN Panicked
                                      ELSE Ok(BoolInto(
                                             CASE op = "GreaterThan" -> U64Less(b.v, a.v)
                                               [] op = "LessThan" -> U64Less(a.v, b.v)
                                               [] op = "EqualTo" -> a.v = b.v))

\* traverse_subpackets: every subpacket, followed by its own traversal when
\* its body is not empty
TraverseFromShallow(body, i) == SubSeq(body, i, Len(body))

RECURSIVE TraverseSubpackets(_)
RECURSIVE TraverseFrom(_, _)
TraverseFrom(body, i) ==
    IF i > Len(body) THEN <<>>
    ELSE <<body[i]>>
         \o (IF body[i].body # <<>> THEN TraverseSubpackets(body[i]) ELSE <<>>)
         \o TraverseFrom(body, i + 1)

TraverseSubpackets(p) == TraverseFrom(p.body, 1)

\* impl Sum<PacketVersion> for u64 over the root chained with the traversal
RECURSIVE SumVersionsOf(_)
SumVersionsOf(packets) ==
    IF packets = <<>> THEN 0
    ELSE SumVersionsOf(SubSeq(packets, 1, Len(packets) - 1))
         + packets[Len(packets)].version

---------------------------------------------------------------------------
\* Inputs of day16: the hex strings and bit strings of the tests, and every
\* prefix of the encoding of every packet of a generated family.
MaxGroups == 2
MaxKids == 3
MaxFramed == 2

\* a generated packet: [version, type_id, nibbles] for a literal,
\* [version, type_id, length_type_id, kids] for an operator
GenLit(version, nibbles) == [version |-> version, type_id |-> 4, nibbles |-> nibbles]
GenOp(version, type_id, lt, kids) ==
    [version |-> version, type_id |-> type_id, lt |-> lt, kids |-> kids]

RECURSIVE ToBits(_, _)
ToBits(n, width) ==
    IF width = 0 THEN <<>> ELSE ToBits(n \div 2, width - 1) \o <<n % 2>>

RECURSIVE EncodeGroups(_)
EncodeGroups(nibbles) ==
    IF Len(nibbles) = 1 THEN <<0>> \o ToBits(nibbles[1], 4)
    ELSE <<1>> \o ToBits(Head(nibbles), 4) \o EncodeGroups(Tail(nibbles))

RECURSIVE Encode(_)
RECURSIVE EncodeAll(_)
EncodeAll(kids) == IF kids = <<>> THEN <<>> ELSE Encode(Head(kids)) \o EncodeAll(Tail(kids))

Encode(g) ==
    ToBits(g.version, 3) \o ToBits(g.type_id, 3)
    \o (IF g.type_id = 4 THEN EncodeGroups(g.nibbles)
        ELSE IF g.lt = 0
        THEN <<0>> \o ToBits(Len(EncodeAll(g.kids)), 15) \o EncodeAll(g.kids)
        ELSE <<1>> \o ToBits(Len(g.kids), 11) \o EncodeAll(g.kids))

SeqsUpTo(S, lo, hi) == UNION {[1..n -> S] : n \in lo..hi}

GenLiterals ==
    {GenLit(v, ns) : v \in {1, 6}, ns \in SeqsUpTo({0, 9, 15}, 1, MaxGroups)}

KidLiterals == {GenLit(2, <<3>>), GenLit(5, <<1, 4>>)}

GenOperators ==
    {GenOp(4, t, lt, kids) : t \in {0, 1, 2, 3, 5, 6, 7}, lt \in {0, 1},
                             kids \in SeqsUpTo(KidLiterals, 0, MaxKids)}

InnerOperators ==
    {GenOp(3, 1, lt, <<GenLit(2, <<3>>), GenLit(5, <<1, 4>>)>>) : lt \in {0, 1}}
    \cup {GenOp(3, 5, 1, <<GenLit(2, <<3>>)>>)}

GenNested ==
    {GenOp(7, t, lt, kids) : t \in {0, 7}, lt \in {0, 1},
        kids \in SeqsUpTo(InnerOperators \cup {GenLit(2, <<3>>)}, 1, 2)}

\* literals near the width of u64 and of a 32-bit integer, and operators
\* over them and over a Minimum without children
MaxLiteral == GenLit(2, <<15, 15, 15, 15, 15, 15, 15, 15, 15, 15, 15, 15, 15, 15, 15, 15>>)
Literal31 == GenLit(2, <<7, 15, 15, 15, 15, 15, 15, 15>>)

GenWide ==
    {MaxLiteral, Literal31}
    \cup {GenOp(4, t, 1, <<MaxLiteral, GenLit(2, <<3>>)>>) : t \in {0, 1, 2, 3, 5, 7}}
    \cup {GenOp(4, t, 1, <<GenOp(3, 2, 1, <<>>), Literal31>>) : t \in {5, 7}}
    \cup {GenOp(4, 7, 1, <<GenOp(3, 2, 1, <<>>), MaxLiteral>>)}

GenPackets == GenLiterals \cup GenOperators \cup GenNested \cup GenWide

SampleHex == {
    <<"D","2","F","E","2","8">>,
    <<"d","2","f","e","2","8">>,
    <<"D","2","G","E","2","8">>,
    <<>>,
    <<"3","8","0","0","6","F","4","5","2","9","1","2","0","0">>,
    <<"8","A","0","0","4","A","8","0","1","A","8","0","0","2","F","4","7","8">>,
    <<"6","2","0","0","8","0","0","0","1","6","1","1","5","6","2","C","8","8","0","2","1","1","8","E","3","4">>,
    <<"C","0","0","1","5","0","0","0","0","1","6","1","1","5","A","2","E","0","8","0","2","F","1","8","2","3","4","0">>,
    <<"A","0","0","1","6","C","8","8","0","1","6","2","0","1","7","C","3","6","8","6","B","1","8","A","3","D","4","7","8","0">>,
    <<"C","2","0","0","B","4","0","A","8","2">>,
    <<"0","4","0","0","5","A","C","3","3","8","9","0">>,
    <<"8","8","0","0","8","6","C","3","E","8","8","1","1","2">>,
    <<"C","E","0","0","C","4","3","D","8","8","1","1","2","0">>,
    <<"D","8","0","0","5","A","C","2","A","8","F","0">>,
    <<"F","6","0","0","B","C","2","D","8","F">>,
    <<"9","C","0","0","5","A","C","2","F","8","F","0">>,
    <<"9","C","0","1","4","1","0","8","0","2","5","0","3","2","0","F","1","8","0","2","1","0","4","A","0","8">> }

\* what follows a whole packet in the stream: nothing, zero padding, stray
\* bits, or a second packet and padding (the doc test of from_iterator)
Pads == {
    <<>>,
    <<0, 0, 0>>,
    <<0, 0, 0, 0, 0, 0, 0>>,
    <<1, 1>>,
    Encode(GenLit(6, <<7, 14, 5>>)) \o <<0, 0, 0>> }

\* an operator whose length field is written independently of what follows
\* it: the header of packet, the number declared in the length field, the
\* encodings of packet.kids, then the bits of pad
FramedKids == SeqsUpTo(KidLiterals, 0, MaxFramed)
FramedPads == {
    <<>>,
    <<0>>,
    <<0, 0, 0>>,
    <<0, 0, 0, 0>>,
    <<0, 0, 0, 0, 0, 0, 0>>,
    <<1, 1>>,
    ToBits(0, 22),
    Encode(GenLit(6, <<7, 14, 5>>)) \o <<0, 0, 0>> }
FramedInputs ==
    {[kind |-> "framed", packet |-> GenOp(0, 0, 0, kids), cut |-> 22 + Len(EncodeAll(kids)),
      pad |-> bs, declared |-> n] :
        kids \in FramedKids, bs \in FramedPads, n \in 0..(MaxFramed * 16 + 8)}
    \cup
    {[kind |-> "framed", packet |-> GenOp(0, 0, 1, kids), cut |-> 18 + Len(EncodeAll(kids)),
      pad |-> bs, declared |-> n] :
        kids \in FramedKids, bs \in FramedPads, n \in 0..(MaxFramed + 1)}

Init16 ==
    /\ day = 16
    /\ Idle18
    /\ text = <<>> /\ input = <<>> /\ factor = 0 /\ pc15 = "off"
    /\ graph = <<>> /\ goal = <<>> /\ visited = {} /\ visit_next = {}
    /\ scores = <<>> /\ distance = -1
    /\ overflow_checks \in BOOLEAN
    /\ \/ \E h \in SampleHex : given = [kind |-> "hex", hex |-> h]
       \/ \E g \in GenPackets : \E n \in 0..Len(Encode(g)) :
            given = [kind |-> "gen", packet |-> g, cut |-> n, pad |-> <<>>]
       \/ \E g \in GenPackets : \E bs \in Pads \ {<<>>} :
            given = [kind |-> "gen", packet |-> g, cut |-> Len(Encode(g)), pad |-> bs]
       \/ given \in {f \in FramedInputs :
                       f.declared <= Len(EncodeAll(f.packet.kids)) + Len(f.pad)}
    /\ bits = <<>> /\ dec = <<>> /\ pc16 = "start"
    /\ val = <<>> /\ trav = <<>> /\ vsum = -1 /\ dec2 = <<>>

\* Packet::from_hex_str: the hex digits mapped to bits and joined, then
\* Packet::new, which unwraps what from_iterator returns
FromHexStr ==
    /\ day = 16 /\ pc16 = "start" /\ given.kind = "hex"
    /\ IF ~HexValid(given.hex)
       THEN /\ bits' = <<>>
            /\ dec' = [st |-> "none", rest |-> <<>>]
            /\ pc16' = "decoded"
       ELSE /\ bits' = HexJoin(given.hex)
            /\ dec' = PacketFromIterator(HexJoin(given.hex))
            /\ pc16' = IF PacketFromIterator(HexJoin(given.hex)).st = "some"
                       THEN "decoded" ELSE "panic"
    /\ UNCHANGED <<day, vars18, vars15, given, val, trav, vsum, dec2>>

\* the bits that follow the length field of a framed input
FramedStream == EncodeAll(given.packet.kids) \o given.pad

\* the bit string of a framed input
FramedBits ==
    ToBits(given.packet.version, 3) \o ToBits(given.packet.type_id, 3)
    \o <<given.packet.lt>>
    \o ToBits(given.declared, IF given.packet.lt = 0 THEN 15 ELSE 11)
    \o FramedStream

\* the bit string of a generated input: the first cut bits of the packet's
\* encoding, followed by the pad
GivenBits ==
    IF given.kind = "framed" THEN FramedBits
    ELSE Take(Encode(given.packet), given.cut) \o given.pad

\* (mutant) from_iterator reads one bit more than the packet holds
FromIteratorOverreads ==
    /\ day = 16 /\ pc16 = "start" /\ given.kind \in {"gen", "framed"}
    /\ bits' = GivenBits
    /\ dec' = [PacketFromIterator(GivenBits) EXCEPT
                  !.rest = IF @ = <<>> THEN @ ELSE Tail(@)]
    /\ pc16' = IF PacketFromIterator(GivenBits).st = "panic" THEN "panic" ELSE "decoded"
    /\ UNCHANGED <<day, vars18, vars15, given, val, trav, vsum, dec2>>

\* (mutant) from_iterator leaves nothing in the iterator
FromIteratorDrains ==
    /\ day = 16 /\ pc16 = "start" /\ given.kind \in {"gen", "framed"}
    /\ bits' = GivenBits
    /\ dec' = [PacketFromIterator(GivenBits) EXCEPT !.rest = <<>>]
    /\ pc16' = IF PacketFromIterator(GivenBits).st = "panic" THEN "panic" ELSE "decoded"
    /\ UNCHANGED <<day, vars18, vars15, given, val, trav, vsum, dec2>>

\* Packet::from_iterator on the chars of a bit string
FromIterator ==
    /\ day = 16 /\ pc16 = "start" /\ given.kind \in {"gen", "framed"}
    /\ bits' = GivenBits
    /\ dec' = PacketFromIterator(GivenBits)
    /\ pc16' = IF PacketFromIterator(GivenBits).st = "panic" THEN "panic" ELSE "decoded"
    /\ UNCHANGED <<day, vars18, vars15, given, val, trav, vsum, dec2>>

\* packet.value()
CallValue ==
    /\ day = 16 /\ pc16 = "decoded" /\ dec.st = "some" /\ val = <<>>
    /\ val' = Value(dec.packet)
    /\ UNCHANGED <<day, vars18, vars15, given, bits, dec, pc16, trav, vsum, dec2>>

\* solve_part1: the versions of the packet and of its traversal, summed
SumVersions ==
    /\ day = 16 /\ pc16 = "decoded" /\ dec.st = "some" /\ vsum = -1
    /\ trav' = TraverseSubpackets(dec.packet)
    /\ vsum' = SumVersionsOf(<<dec.packet>> \o TraverseSubpackets(dec.packet))
    /\ UNCHANGED <<day, vars18, vars15, given, bits, dec, pc16, val, dec2>>

\* a second Packet::from_iterator on the iterator the first call left
FromIteratorNext ==
    /\ day = 16 /\ pc16 = "decoded" /\ dec.st = "some" /\ dec2 = <<>>
    /\ dec2' = PacketFromIterator(dec.rest)
    /\ pc16' = IF PacketFromIterator(dec.rest).st = "panic" THEN "panic" ELSE pc16
    /\ UNCHANGED <<day, vars18, vars15, given, bits, dec, val, trav, vsum>>

Next16 == FromHexStr \/ FromIterator \/ CallValue \/ SumVersions \/ FromIteratorNext

(***************************************************************************)
(*                           Specifications                                *)
(***************************************************************************)

SpecDay18 == Init18 /\ [][Next18]_vars
\* reduce is a loop of one synchronous call: once entered it keeps taking
\* its next iteration until it breaks.  This is weak fairness of the three
\* iterations, WF_vars(ReduceIteration), written out: an iteration that
\* changes the state is enabled exactly in the states with pc18 = "reduce"
\* (an explosion and a split change sf, the break changes pc18).
ReduceIteration == ReduceExplode \/ ReduceSplit \/ ReduceBreak
LiveDay18 ==
    SpecDay18 /\ ([]<>(pc18 # "reduce") \/ []<><<ReduceIteration>>_vars)
SpecDay15 == Init15 /\ [][Next15]_vars
SpecDay16 == Init16 /\ [][Next16]_vars

Init == Init18 \/ Init15 \/ Init16
Next == Next18 \/ Next15 \/ Next16
Spec == Init /\ [][Next]_vars

(***************************************************************************)
(*                 Reference definitions for the properties                *)
(***************************************************************************)

\* The leaves of a tree, left to right, each as its path from the root.
RECURSIVE LeafPaths(_, _)
LeafPaths(t, p) ==
    IF IsNum(t) THEN <<p>>
    ELSE LeafPaths(t[1], p \o <<1>>) \o LeafPaths(t[2], p \o <<2>>)

Front(p) == SubSeq(p, 1, Len(p) - 1)

\* Positions i such that leaves i and i+1 are the two children of one pair
\* whose depth (root = 0) is at least 4.
DeepLeafPairs(t) ==
    LET L == LeafPaths(t, <<>>)
    IN  {i \in 1..(Len(L) - 1) :
            /\ Len(L[i]) >= 5
            /\ Len(L[i + 1]) = Len(L[i])
            /\ Front(L[i]) = Front(L[i + 1])}


BigLeaves(t) ==
    LET L == LeafPaths(t, <<>>)
    IN  {i \in 1..Len(L) : At(t, L[i])[1] >= 10}

Least(S) == CHOOSE k \in S : \A j \in S : k <= j

\* The explosion rule as the specification words it: the leftmost pair of
\* two leaves at depth >= 4 gives its left value to the leaf before it and
\* its right value to the leaf after it, and becomes Leaf(0).
RefExplode(t) ==
    LET L == LeafPaths(t, <<>>)
        i == Least(DeepLeafPairs(t))
        l == At(t, L[i])[1]
        r == At(t, L[i + 1])[1]
        t1 == IF i > 1 THEN Put(t, L[i - 1], Num(At(t, L[i - 1])[1] + l)) ELSE t
        t2 == IF i + 2 <= Len(L)
              THEN Put(t1, L[i + 2], Num(At(t1, L[i + 2])[1] + r)) ELSE t1
    IN  Put(t2, Front(L[i]), Num(0))

\* The split rule: the first leaf >= 10 becomes Pair(floor(v/2), ceil(v/2)).
RefSplit(t) ==
    LET L == LeafPaths(t, <<>>)
        i == Least(BigLeaves(t))
        v == At(t, L[i])[1]
    IN  Put(t, L[i], Pair(Num(v \div 2), Num(v - (v \div 2))))

RECURSIVE RefReduce(_)
RefReduce(t) ==
    IF DeepLeafPairs(t) # {} THEN RefReduce(RefExplode(t))
    ELSE IF BigLeaves(t) # {} THEN RefReduce(RefSplit(t))
    ELSE t

\* A reduced tree: no pair at depth >= 4 and no leaf >= 10.
IsReduced(t) ==
    LET L == LeafPaths(t, <<>>)
    IN  \A i \in 1..Len(L) : Len(L[i]) <= 4 /\ At(t, L[i])[1] < 10

RECURSIVE PathWeight(_)
PathWeight(p) ==
    IF p = <<>> THEN 1 ELSE (IF Head(p) = 1 THEN 3 ELSE 2) * PathWeight(Tail(p))

RECURSIVE SumSeq(_)
SumSeq(s) == IF s = <<>> THEN 0 ELSE Head(s) + SumSeq(Tail(s))

\* The magnitude in closed form: every leaf weighs 3 per left branch and 2
\* per right branch on its path.
RefMagnitude(t) ==
    LET L == LeafPaths(t, <<>>)
    IN  SumSeq([i \in 1..Len(L) |-> At(t, L[i])[1] * PathWeight(L[i])])

\* ---- day15 ----
Adjacent(a, b) ==
    \/ a.x = b.x /\ (a.y = b.y + 1 \/ b.y = a.y + 1)
    \/ a.y = b.y /\ (a.x = b.x + 1 \/ b.x = a.x + 1)

\* More than any path without a repeated cell can cost.
Unreached(in) == 10 * Len(in) + 1

\* One round of relaxation over the cells in[1..]: d[i] is the least known
\* cost of a walk from the start into cell i, a step into a cell costing that
\* cell's value.
RECURSIVE RelaxRound(_, _, _)
RelaxRound(in, d, i) ==
    IF i > Len(in) THEN <<>>
    ELSE << Min({d[i]} \cup {d[j] + in[i].value :
                               j \in {k \in 1..Len(in) : Adjacent(in[k], in[i])}}) >>
         \o RelaxRound(in, d, i + 1)

RECURSIVE Relax(_, _, _)
Relax(in, d, k) == IF k = 0 THEN d ELSE Relax(in, RelaxRound(in, d, 1), k - 1)

RECURSIVE StartCosts(_, _)
StartCosts(in, i) ==
    IF i > Len(in) THEN <<>>
    ELSE << IF in[i].x = 0 /\ in[i].y = 0 THEN 0 ELSE Unreached(in) >>
         \o StartCosts(in, i + 1)

\* The least total cost of the cells entered on a path of 4-adjacent steps
\* (in any direction) from the cell at (0, 0) to the bottom-right cell.
MinPathCost(in) ==
    LET end == CHOOSE i \in 1..Len(in) :
                   in[i].x = get_width(in) - 1 /\ in[i].y = get_height(in) - 1
    IN  Relax(in, StartCosts(in, 1), Len(in))[end]

CostsIn1to9(in) == \A i \in 1..Len(in) : in[i].value \in 1..9

\* a text of at least one line whose lines all have the length of the first,
\* which is not 0
RectangularText(t) ==
    /\ t # <<>>
    /\ t[1] # <<>>
    /\ \A i \in 1..Len(t) : Len(t[i]) = Len(t[1])

\* The best path goes down, right, up, right, down (resp. right, down, left,
\* down, right) around two cells of cost 9.
SnakeUpText == << <<"1", "9", "1", "1", "1">>, <<"1", "1", "1", "9", "1">> >>
SnakeLeftText == << <<"1", "1">>, <<"9", "1">>, <<"1", "1">>, <<"1", "9">>, <<"1", "1">> >>

\* ---- examples of day18 ----
ExampleA == P(P(P(P(N(4),N(3)),N(4)),N(4)),P(N(7),P(P(N(8),N(4)),N(9))))
ExampleB == P(N(1),N(1))
ExampleSum == P(P(P(P(N(0),N(7)),N(4)),P(P(N(7),N(8)),P(N(6),N(0)))),P(N(8),N(1)))

\* ---- day16 ----
\* The u64 the groups of a literal spell, most significant group first (at
\* most 16 groups): two groups make a byte
RefLiteralValue(nibbles) ==
    LET ns == PadTo(nibbles, 16)
    IN  <<16 * ns[1] + ns[2], 16 * ns[3] + ns[4], 16 * ns[5] + ns[6],
          16 * ns[7] + ns[8], 16 * ns[9] + ns[10], 16 * ns[11] + ns[12],
          16 * ns[13] + ns[14], 16 * ns[15] + ns[16]>>

\* < of two natural numbers
NatLess(x, y) ==
    LET a == StripZeros(x)
        b == StripZeros(y)
    IN  \/ Len(a) < Len(b)
        \/ /\ Len(a) = Len(b)
           /\ \E i \in 1..Len(a) : a[i] < b[i] /\ \A j \in 1..(i - 1) : a[j] = b[j]

RECURSIVE NatSumSeq(_)
NatSumSeq(s) == IF s = <<>> THEN <<>> ELSE NatAdd(Head(s), NatSumSeq(Tail(s)))

RECURSIVE NatProductSeq(_)
NatProductSeq(s) == IF s = <<>> THEN <<1>> ELSE NatMul(Head(s), NatProductSeq(Tail(s)))

NatMin(S) == CHOOSE m \in S : \A x \in S : ~NatLess(x, m)
NatMax(S) == CHOOSE m \in S : \A x \in S : ~NatLess(m, x)

\* value() has returned the natural number n
HasValue(r, n) == ~r.panic /\ StripZeros(r.v) = StripZeros(n)

\* The evaluation as the specification words it, on a generated packet and
\* by type id: <<n>> for the natural number n, NoValue where it is a fatal
\* failure
NoValue == <<>>

RECURSIVE RefValue(_)
RefValue(g) ==
    IF g.type_id = 4 THEN <<StripZeros(RefLiteralValue(g.nibbles))>>
    ELSE LET rs == [i \in 1..Len(g.kids) |-> RefValue(g.kids[i])]
         IN  IF \E i \in 1..Len(rs) : rs[i] = NoValue THEN NoValue
             ELSE LET vs == [i \in 1..Len(rs) |-> rs[i][1]]
                      S == {vs[i] : i \in 1..Len(vs)}
                  IN  CASE g.type_id = 0 -> <<NatSumSeq(vs)>>
                        [] g.type_id = 1 -> <<NatProductSeq(vs)>>
                        [] g.type_id = 2 -> IF S = {} THEN <<U64_MAX>> ELSE <<NatMin(S)>>
                        [] g.type_id = 3 -> IF S = {} THEN <<<<>>>> ELSE <<NatMax(S)>>
                        [] OTHER ->
                            IF Len(vs) # 2 THEN NoValue
                            ELSE CASE g.type_id = 5 ->
                                        <<IF NatLess(vs[2], vs[1]) THEN <<1>> ELSE <<>> >>
                                   [] g.type_id = 6 ->
                                        <<IF NatLess(vs[1], vs[2]) THEN <<1>> ELSE <<>> >>
                                   [] g.type_id = 7 ->
                                        <<IF vs[1] = vs[2] THEN <<1>> ELSE <<>> >>

\* The packets of a tree by their path of child indices from the root
RECURSIVE PacketPaths(_)
PacketPaths(p) ==
    {<<>>} \cup UNION { {<<i>> \o q : q \in PacketPaths(p.body[i])} : i \in 1..Len(p.body) }

RECURSIVE PacketAt(_, _)
PacketAt(p, path) == IF path = <<>> THEN p ELSE PacketAt(p.body[Head(path)], Tail(path))

RECURSIVE GenPaths(_)
GenPaths(g) ==
    {<<>>} \cup (IF g.type_id = 4 THEN {}
                 ELSE UNION { {<<i>> \o q : q \in GenPaths(g.kids[i])} : i \in 1..Len(g.kids) })

RECURSIVE GenAt(_, _)
GenAt(g, path) == IF path = <<>> THEN g ELSE GenAt(g.kids[Head(path)], Tail(path))

\* pre-order is the lexicographic order of the paths, a prefix first
RECURSIVE LexLess(_, _)
LexLess(a, b) ==
    IF b = <<>> THEN FALSE
    ELSE IF a = <<>> THEN TRUE
    ELSE IF Head(a) # Head(b) THEN Head(a) < Head(b)
    ELSE LexLess(Tail(a), Tail(b))

RECURSIVE SumVersionsAt(_, _)
SumVersionsAt(p, paths) ==
    IF paths = {} THEN 0
    ELSE LET q == CHOOSE r \in paths : TRUE
         IN  PacketAt(p, q).version + SumVersionsAt(p, paths \ {q})

Decoded == day = 16 /\ pc16 = "decoded" /\ dec.st = "some"
WellFormed == Decoded /\ given.kind = "gen" /\ given.cut = Len(Encode(given.packet))
FromHex(h) == Decoded /\ given = [kind |-> "hex", hex |-> h]

\* the values of the children of a packet, when every one of them has one
ChildrenHaveValues(p) == \A i \in 1..Len(p.body) : ~Value(p.body[i]).panic
ChildValues(p) == [i \in 1..Len(p.body) |-> Value(p.body[i]).v]
ValueSet(p) == {Value(p.body[i]).v : i \in 1..Len(p.body)}

HexD2FE28 == <<"D","2","F","E","2","8">>
Hex8A == <<"8","A","0","0","4","A","8","0","1","A","8","0","0","2","F","4","7","8">>
Hex62 == <<"6","2","0","0","8","0","0","0","1","6","1","1","5","6","2","C","8","8","0","2","1","1","8","E","3","4">>
HexC0 == <<"C","0","0","1","5","0","0","0","0","1","6","1","1","5","A","2","E","0","8","0","2","F","1","8","2","3","4","0">>
HexA0 == <<"A","0","0","1","6","C","8","8","0","1","6","2","0","1","7","C","3","6","8","6","B","1","8","A","3","D","4","7","8","0">>
HexC2 == <<"C","2","0","0","B","4","0","A","8","2">>
Hex04 == <<"0","4","0","0","5","A","C","3","3","8","9","0">>
Hex88 == <<"8","8","0","0","8","6","C","3","E","8","8","1","1","2">>
HexCE == <<"C","E","0","0","C","4","3","D","8","8","1","1","2","0">>
HexD8 == <<"D","8","0","0","5","A","C","2","A","8","F","0">>
HexF6 == <<"F","6","0","0","B","C","2","D","8","F">>
Hex9C00 == <<"9","C","0","0","5","A","C","2","F","8","F","0">>
Hex9C01 == <<"9","C","0","1","4","1","0","8","0","2","5","0","3","2","0","F","1","8","0","2","1","0","4","A","0","8">>

\* the stream of a generated packet cut to its first cut bits ends inside one
\* of the fields of the packet's header or of its literal
TruncatedField(g, cut) ==
    \/ cut < 6
    \/ g.type_id = 4 /\ cut < Len(Encode(g))
    \/ g.type_id # 4 /\ cut < 7 + (IF g.lt = 0 THEN 15 ELSE 11)

(***************************************************************************)
(*                              Properties                                 *)
(***************************************************************************)

\* C1: for reduced a and b, a + b is the tree the reduction loop of the
\* specification gives for Pair(a, b) (explode the leftmost leaf pair at
\* depth >= 4, else split the first leaf >= 10, until neither applies); the
\* worked example sums to [[[[0,7],4],[[7,8],[6,0]]],[8,1]].
C1_AddIsSpecReduction ==
    (pc18 = "done" /\ operands # <<>>
        /\ IsReduced(operands[1]) /\ IsReduced(operands[2]))
    => /\ sf = RefReduce(Pair(operands[1], operands[2]))
       /\ (operands = <<ExampleA, ExampleB>> => sf = ExampleSum)

C1_Witness ==
    /\ pc18 = "done"
    /\ operands = <<ExampleA, ExampleB>>
    /\ sf = ExampleSum
    /\ lastOp = "explode"

\* C6: whatever the input tree, what reduce (and so a + b) returns has no
\* pair at depth >= 4 and no leaf >= 10.
C6_ReduceReturnsFixedPoint ==
    pc18 = "done" => IsReduced(sf) /\ DeepLeafPairs(sf) = {} /\ BigLeaves(sf) = {}

C6_Witness ==
    /\ pc18 = "done"
    /\ operands # <<>>
    /\ ~IsReduced(Pair(operands[1], operands[2]))
    /\ ~IsReduced(operands[1])
    /\ lastOp = "split"
    /\ IsReduced(sf)

\* C7: magnitude(Leaf(v)) = v and magnitude(Pair(l, r)) = 3 * magnitude(l)
\* + 2 * magnitude(r); [9,1] has magnitude 29, [[1,2],[[3,4],5]] has 143.
C7_Magnitude ==
    pc18 = "mag" =>
       /\ mag = RefMagnitude(sf)
       /\ IsNum(sf) => mag = sf[1]
       /\ IsPair(sf) => mag = 3 * RefMagnitude(sf[1]) + 2 * RefMagnitude(sf[2])
       /\ sf = P(N(9),N(1)) => mag = 29
       /\ sf = P(P(N(1),N(2)),P(P(N(3),N(4)),N(5))) => mag = 143

C7_Witness ==
    /\ pc18 = "mag"
    /\ sf = P(P(N(1),N(2)),P(P(N(3),N(4)),N(5)))
    /\ mag = 143

\* C2: on a rectangular grid of at least two cells with costs in 1..9,
\* solve_part1 returns the least cost of a path from (0,0) to the
\* bottom-right cell that may step in all four directions, counting the
\* cells entered and not the start cell.
C2_SolvePart1IsMinimum ==
    (pc15 = "done" /\ RectangularText(text) /\ Len(input) >= 2 /\ CostsIn1to9(input))
    => /\ distance = MinPathCost(input)
       /\ text = SnakeUpText /\ factor = 0 => distance = 7
       /\ text = SnakeLeftText /\ factor = 0 => distance = 7

C2_Witness ==
    /\ pc15 = "done"
    /\ text = SnakeUpText
    /\ factor = 0
    /\ distance = 7
    /\ distance = MinPathCost(input)

\* C8: scale(f) of a rectangular w x h grid with costs in 1..9 holds exactly
\* one cell per (X, Y) of [0, w*f) x [0, h*f), w*h*f*f cells in all, and the
\* cell at (x + w*bx, y + h*by) costs ((c - 1 + bx + by) mod 9) + 1 for the
\* original cost c at (x, y).
C8_Scale ==
    (pc15 = "scaled" /\ RectangularText(text) /\ CostsIn1to9(FromStr(text).input))
    => LET w == Len(text[1])
           h == Len(text)
           f == factor
       IN  /\ Len(input) = w * h * f * f
           /\ \A X \in 0..(w * f - 1), Y \in 0..(h * f - 1) :
                Cardinality({i \in 1..Len(input) :
                               input[i].x = X /\ input[i].y = Y}) = 1
           /\ \A bx \in 0..(f - 1), by \in 0..(f - 1),
                 x \in 0..(w - 1), y \in 0..(h - 1) :
                get_point(input, x + w * bx, y + h * by).value
                   = ((ToDigit(text[y + 1][x + 1]) - 1 + bx + by) % 9) + 1

C8_Witness ==
    /\ pc15 = "scaled"
    /\ text = << <<"3", "4", "5">>, <<"6", "7", "8">> >>
    /\ factor = 2
    /\ Len(input) = 24
    /\ get_point(input, 5, 3).value = 1

\* C3: a well-formed literal packet decodes to the integer spelled by the 4
\* value bits of its groups, most significant group first, up to the first
\* group whose flag is 0; hex D2FE28 decodes to the literal 2021.
C3_LiteralValue ==
    /\ WellFormed =>
         \A q \in GenPaths(given.packet) :
            GenAt(given.packet, q).type_id = 4 =>
               /\ q \in PacketPaths(dec.packet)
               /\ PacketAt(dec.packet, q).message_type
                    = Literal(RefLiteralValue(GenAt(given.packet, q).nibbles))
    /\ FromHex(HexD2FE28) => dec.packet.message_type = Literal(U64(2021))

C3_Witness ==
    /\ WellFormed
    /\ given.packet = GenLit(6, <<9, 15>>)
    /\ dec.packet = Packet(6, Literal(U64(159)), <<>>)
    /\ dec.rest = <<>>

\* C4: value() is v for Literal(v), and for an operator of type id 0, 1, 2,
\* 3 with at least one child it is the sum, the product, the minimum, the
\* maximum of the values of its children.
C4_ValueArithmetic ==
    /\ (Decoded /\ val # <<>>) =>
         \A q \in PacketPaths(dec.packet) :
            LET p == PacketAt(dec.packet, q)
                v == IF q = <<>> THEN val ELSE Value(p)
            IN  IF p.message_type.kind = "Literal"
                THEN v = Ok(p.message_type.value)
                ELSE (Len(p.body) >= 1 /\ ChildrenHaveValues(p)) =>
                       /\ p.message_type.op = "Sum"
                            => HasValue(v, NatSumSeq(ChildValues(p)))
                       /\ p.message_type.op = "Product"
                            => HasValue(v, NatProductSeq(ChildValues(p)))
                       /\ p.message_type.op = "Minimum" => HasValue(v, NatMin(ValueSet(p)))
                       /\ p.message_type.op = "Maximum" => HasValue(v, NatMax(ValueSet(p)))
    /\ (WellFormed /\ val # <<>> /\ given.packet.type_id \in {0, 1, 2, 3, 4}
          /\ (given.packet.type_id = 4 \/ Len(given.packet.kids) >= 1)
          /\ RefValue(given.packet) # NoValue)
       => HasValue(val, RefValue(given.packet)[1])
    /\ (FromHex(HexC2) /\ val # <<>>) => val = Ok(U64(3))
    /\ (FromHex(Hex04) /\ val # <<>>) => val = Ok(U64(54))
    /\ (FromHex(Hex88) /\ val # <<>>) => val = Ok(U64(7))
    /\ (FromHex(HexCE) /\ val # <<>>) => val = Ok(U64(9))

C4_Witness ==
    /\ WellFormed
    /\ given.packet = GenOp(4, 2, 1, <<GenLit(5, <<1, 4>>), GenLit(2, <<3>>), GenLit(5, <<1, 4>>)>>)
    /\ dec.packet.message_type.op = "Minimum"
    /\ Len(dec.packet.body) = 3
    /\ val = Ok(U64(3))

\* C5: GreaterThan, LessThan and EqualTo (type ids 5, 6, 7) with exactly two
\* children evaluate to 1 when value(first) >, <, = value(second) and to 0
\* otherwise; with any other number of children value() is a fatal failure.
C5_ValueComparison ==
    /\ (Decoded /\ val # <<>>) =>
         \A q \in PacketPaths(dec.packet) :
            LET p == PacketAt(dec.packet, q)
                v == IF q = <<>> THEN val ELSE Value(p)
                a == Value(p.body[1]).v
                b == Value(p.body[2]).v
            IN  (p.message_type.kind = "Operator"
                   /\ p.message_type.op \in {"GreaterThan", "LessThan", "EqualTo"}) =>
                  /\ Len(p.body) # 2 => v.panic
                  /\ (Len(p.body) = 2 /\ ChildrenHaveValues(p)) =>
                       /\ ~v.panic
                       /\ v.v \in {U64(0), U64(1)}
                       /\ p.message_type.op = "GreaterThan"
                            => (v.v = U64(1) <=> NatLess(b, a))
                       /\ p.message_type.op = "LessThan"
                            => (v.v = U64(1) <=> NatLess(a, b))
                       /\ p.message_type.op = "EqualTo" => (v.v = U64(1) <=> a = b)
    /\ (WellFormed /\ val # <<>> /\ given.packet.type_id \in {5, 6, 7}) =>
          IF RefValue(given.packet) = NoValue THEN val.panic
          ELSE HasValue(val, RefValue(given.packet)[1])
    /\ (FromHex(HexD8) /\ val # <<>>) => val = Ok(U64(1))
    /\ (FromHex(HexF6) /\ val # <<>>) => val = Ok(U64(0))
    /\ (FromHex(Hex9C00) /\ val # <<>>) => val = Ok(U64(0))
    /\ (FromHex(Hex9C01) /\ val # <<>>) => val = Ok(U64(1))

C5_Witness ==
    /\ WellFormed
    /\ given.packet = GenOp(4, 5, 0, <<GenLit(5, <<1, 4>>), GenLit(2, <<3>>)>>)
    /\ dec.packet.message_type.op = "GreaterThan"
    /\ Len(dec.packet.body) = 2
    /\ val = Ok(U64(1))

\* C9: traverse_subpackets yields every descendant of the packet exactly
\* once, in pre-order, and never the packet itself; the version sum is the
\* sum of the versions of the root and of every descendant.
C9_VersionSum ==
    /\ (Decoded /\ vsum # -1) =>
         LET paths == PacketPaths(dec.packet) \ {<<>>}
         IN  /\ Len(trav) = Cardinality(paths)
             /\ \A q \in paths :
                  trav[1 + Cardinality({r \in paths : LexLess(r, q)})]
                     = PacketAt(dec.packet, q)
             /\ vsum = dec.packet.version + SumVersionsAt(dec.packet, paths)
    /\ (FromHex(Hex8A) /\ vsum # -1) => vsum = 16
    /\ (FromHex(Hex62) /\ vsum # -1) => vsum = 12
    /\ (FromHex(HexC0) /\ vsum # -1) => vsum = 23
    /\ (FromHex(HexA0) /\ vsum # -1) => vsum = 31

C9_Witness ==
    /\ FromHex(Hex8A)
    /\ Len(trav) = 3
    /\ trav[3].body = <<>>
    /\ trav[1].body = <<trav[2]>>
    /\ vsum = 16

\* C10: decoding yields no packet when the stream ends inside a version, a
\* type id, a literal's groups, or a length or count field.
C10_TruncatedDecodeFails ==
    (day = 16 /\ pc16 \in {"decoded", "panic"} /\ given.kind = "gen"
        /\ TruncatedField(given.packet, given.cut))
    => dec.st # "some"

\* C11: parsing the grid text fails, and yields no grid, when the text is
\* empty, when its lines differ in length, or when a char is no digit; only
\* non-empty rectangular texts of digits are accepted.
AllDigits(t) == \A i \in 1..Len(t) : \A j \in 1..Len(t[i]) : ToDigit(t[i][j]) # -1

C11_ParseRejectsMalformed ==
    (day = 15 /\ pc15 \in {"parsed", "parse_err"})
    => (pc15 = "parsed" <=> (RectangularText(text) /\ AllDigits(text)))

\* C12: solve_part2 returns the greatest magnitude of a + b over all ordered
\* pairs of entries at two different positions of the list, equal trees at
\* different positions included; with no such pair it returns nothing.
RefPart2(ns) ==
    LET mags == {RefMagnitude(RefReduce(Pair(ns[i], ns[j]))) :
                    <<i, j>> \in {ij \in (1..Len(ns)) \X (1..Len(ns)) : ij[1] # ij[2]}}
    IN  IF mags = {} THEN <<>> ELSE <<Max(mags)>>

C12_Part2PairsPositions ==
    (day = 18 /\ pc18 = "part2") => part2 = RefPart2(numbers)

\* C13: reduce is idempotent: reduce called on what reduce returned returns
\* the same tree.
C13_ReduceIdempotent ==
    (day = 18 /\ pc18 = "done" /\ prev # <<>>) => sf = prev

C13_Witness ==
    /\ day = 18 /\ pc18 = "done"
    /\ prev # <<>>
    /\ operands # <<>>
    /\ ~IsReduced(Pair(operands[1], operands[2]))
    /\ sf = prev

\* C14 as stated: the magnitude of a tree is at least the number of its
\* leaves.
C14_MagnitudeAtLeastLeaves ==
    (day = 18 /\ pc18 = "mag") => mag >= Len(LeafPaths(sf, <<>>))

\* C14 amended: the magnitude of a tree all of whose leaves are at least 1
\* is at least the number of its leaves.
AllLeavesPositive(t) ==
    \A i \in 1..Len(LeafPaths(t, <<>>)) : At(t, LeafPaths(t, <<>>)[i])[1] >= 1

C14_MagnitudeAtLeastLeavesPositive ==
    (day = 18 /\ pc18 = "mag" /\ AllLeavesPositive(sf))
    => mag >= Len(LeafPaths(sf, <<>>))

C14_Witness ==
    /\ day = 18 /\ pc18 = "mag"
    /\ sf = P(N(1),N(1))
    /\ mag = 5

\* C15 as stated: on every rectangular grid of digits 0-9 the cost
\* solve_part1 returns is at least the Manhattan distance between the
\* top-left and the bottom-right corner.
ManhattanCorners(in) == (get_width(in) - 1) + (get_height(in) - 1)

C15_CostAtLeastManhattan ==
    (day = 15 /\ pc15 = "done" /\ RectangularText(text))
    => distance >= ManhattanCorners(input)

\* C15 amended: on every rectangular grid whose costs are all in 1..9 the
\* cost solve_part1 returns is at least that Manhattan distance.
C15_CostAtLeastManhattanPositive ==
    (day = 15 /\ pc15 = "done" /\ RectangularText(text) /\ CostsIn1to9(input))
    => distance >= ManhattanCorners(input)

C15_Witness ==
    /\ day = 15 /\ pc15 = "done"
    /\ text = << <<"3", "4", "5">>, <<"6", "7", "8">> >>
    /\ factor = 0
    /\ ManhattanCorners(input) = 3
    /\ distance = 17

\* The packet tree a generated packet stands for
TypeIdName(type_id) ==
    CASE type_id = 0 -> "Sum" [] type_id = 1 -> "Product"
      [] type_id = 2 -> "Minimum" [] type_id = 3 -> "Maximum"
      [] type_id = 5 -> "GreaterThan" [] type_id = 6 -> "LessThan"
      [] type_id = 7 -> "EqualTo"

RECURSIVE RefPacket(_)
RefPacket(g) ==
    IF g.type_id = 4
    THEN [version |-> g.version,
          message_type |-> [kind |-> "Literal", value |-> RefLiteralValue(g.nibbles)],
          body |-> <<>>]
    ELSE [version |-> g.version,
          message_type |->
              [kind |-> "Operator",
               length_type |-> IF g.lt = 0
                               THEN [kind |-> "TotalLengthInBits", n |-> Len(EncodeAll(g.kids))]
                               ELSE [kind |-> "SubpacketCount", n |-> Len(g.kids)],
               op |-> TypeIdName(g.type_id)],
          body |-> [i \in 1..Len(g.kids) |-> RefPacket(g.kids[i])]]

RECURSIVE RefVersionSum(_)
RefVersionSum(g) ==
    g.version + (IF g.type_id = 4 THEN 0
                 ELSE SumSeq([i \in 1..Len(g.kids) |-> RefVersionSum(g.kids[i])]))

SecondPacket == GenLit(6, <<7, 14, 5>>)

\* C16: from_iterator consumes exactly the bits of one well-formed packet:
\* what follows the packet stays in the iterator, a second call decodes the
\* next packet, and the decoded tree, its version sum and its value do not
\* depend on the bits that follow.
C16_ConsumesOnePacket ==
    WellFormed =>
       /\ dec.packet = RefPacket(given.packet)
       /\ dec.rest = given.pad
       /\ val # <<>> => val = Value(RefPacket(given.packet))
       /\ vsum # -1 => vsum = RefVersionSum(given.packet)
       /\ (dec2 # <<>> /\ given.pad = Encode(SecondPacket) \o <<0, 0, 0>>) =>
             /\ dec2.st = "some"
             /\ dec2.packet = RefPacket(SecondPacket)
             /\ dec2.rest = <<0, 0, 0>>

C16_Witness ==
    /\ WellFormed
    /\ given.pad = Encode(SecondPacket) \o <<0, 0, 0>>
    /\ given.packet.type_id = 0 /\ given.packet.lt = 0 /\ Len(given.packet.kids) = 2
    /\ dec.rest = given.pad
    /\ dec2 # <<>>
    /\ dec2.packet.message_type.value = U64(2021)
    /\ val # <<>> /\ vsum # -1

\* C17: scale(1) is a no-op: the grid has the same cells, with the same
\* coordinates and costs, as before.
C17_ScaleOneIsNoOp ==
    (day = 15 /\ pc15 = "scaled" /\ factor = 1) => input = FromStr(text).input

C17_Witness ==
    /\ day = 15 /\ pc15 = "scaled" /\ factor = 1
    /\ text = << <<"3", "4", "5">>, <<"6", "7", "8">> >>
    /\ Len(input) = 6
    /\ input[6] = Point(2, 1, 8)

\* ---------------------------------------------------------------------
\* C18, C19, C20: explode and its place in reduce
\* ---------------------------------------------------------------------

\* The pairs of a tree, each as its path from the root.
RECURSIVE PairPaths(_, _)
PairPaths(t, p) ==
    IF IsNum(t) THEN {}
    ELSE {p} \cup PairPaths(t[1], p \o <<1>>) \cup PairPaths(t[2], p \o <<2>>)

\* The pairs at depth >= 4 (root = 0).
DeepPairs(t) == {p \in PairPaths(t, <<>>) : Len(p) >= 4}

\* The leftmost of them, in reading order.
LeftmostDeepPair(t) ==
    CHOOSE p \in DeepPairs(t) : \A q \in DeepPairs(t) : q = p \/ LexLess(p, q)

IsLeafPair(n) == IsPair(n) /\ IsNum(n[1]) /\ IsNum(n[2])

LeftmostDeepPairIsLeafPair(t) ==
    /\ DeepPairs(t) # {}
    /\ IsLeafPair(At(t, LeftmostDeepPair(t)))

\* The explosion of the pair made of leaves i and i+1.
RefExplodeOf(t, i) ==
    LET L == LeafPaths(t, <<>>)
        l == At(t, L[i])[1]
        r == At(t, L[i + 1])[1]
        t1 == IF i > 1 THEN Put(t, L[i - 1], Num(At(t, L[i - 1])[1] + l)) ELSE t
        t2 == IF i + 2 <= Len(L)
              THEN Put(t1, L[i + 2], Num(At(t1, L[i + 2])[1] + r)) ELSE t1
    IN  Put(t2, Front(L[i]), Num(0))

\* C18: when the leftmost pair at depth >= 4 of the tree being reduced is a
\* pair of two leaves, the next step is an explosion (explode returned
\* true) and the tree after it is the tree before it with that one pair
\* replaced by Leaf(0), its left value added to the nearest leaf on its
\* left and its right value to the nearest leaf on its right, when there
\* are such leaves, and nothing else changed.
C18_ExplodeLeftmostLeafPair ==
    [][(day = 18 /\ pc18 = "reduce" /\ LeftmostDeepPairIsLeafPair(sf))
         => (lastOp' = "explode" /\ sf' = RefExplode(sf))]_vars

\* [[[[[9,8],1],2],3],4] has become [[[[0,9],2],3],4], and
\* [[6,[5,[4,[3,2]]]],1] has become [[6,[5,[7,0]]],3].
C18_Witness ==
    /\ day = 18 /\ pc18 = "reduce" /\ lastOp = "explode"
    /\ sf \in {P(P(P(P(N(0), N(9)), N(2)), N(3)), N(4)),
               P(P(N(6), P(N(5), P(N(7), N(0)))), N(3))}

\* C19: every explosion replaces a pair of two leaves: the tree after an
\* explosion is the tree before it with one pair of two leaves at depth >= 4
\* exploded, so that no pair with a pair child is replaced by Leaf(0) and
\* no leaf of a nested pair is dropped.
C19_ExplodeOnlyLeafPairs ==
    [][ReduceExplode =>
         \E i \in DeepLeafPairs(sf) : sf' = RefExplodeOf(sf, i)]_vars

\* A leaf >= 10 lies to the left of a pair at depth >= 4.
BigLeafLeftOfDeepPair(t) ==
    LET L == LeafPaths(t, <<>>)
    IN  \E i \in BigLeaves(t) : \E p \in DeepPairs(t) : LexLess(L[i], p)

\* C20: a step of reduce that splits starts in a tree with no pair at
\* depth >= 4, and a step of reduce that starts in a tree with such a pair
\* is an explosion, whatever leaves >= 10 the tree holds.
C20_ExplodeBeforeSplit ==
    [][(day = 18 /\ pc18 = "reduce")
         => /\ (lastOp' = "split" /\ sf' # sf) => DeepPairs(sf) = {}
            /\ DeepPairs(sf) # {} => ReduceExplode]_vars

\* 10 + [1,[1,[1,[1,1]]]]: the pair [1,1] at depth 4 has been exploded
\* while the leaf 10 on its left is still whole.
C20_Witness ==
    /\ day = 18 /\ pc18 = "reduce" /\ lastOp = "explode"
    /\ operands = <<N(10), P(N(1), P(N(1), P(N(1), P(N(1), N(1)))))>>
    /\ BigLeafLeftOfDeepPair(Pair(operands[1], operands[2]))
    /\ sf = P(N(10), P(N(1), P(N(1), P(N(2), N(0)))))

\* ---------------------------------------------------------------------
\* C21: the split of reduce
\* ---------------------------------------------------------------------

\* The nodes of a tree on which split must do nothing: the pairs and the
\* leaves below 10.
Unsplittable(t) ==
    LET L == LeafPaths(t, <<>>)
    IN  PairPaths(t, <<>>) \cup {L[i] : i \in (1..Len(L)) \ BigLeaves(t)}

\* C21: a step of reduce that splits turns the first leaf >= 10, in reading
\* order, into Pair(Leaf(floor(v/2)), Leaf(ceil(v/2))), whose halves sum to
\* v, and changes nothing else; split on a pair or on a leaf below 10 of the
\* tree returns false and leaves the node as it is.
C21_SplitFirstBigLeaf ==
    [][ReduceSplit =>
         /\ BigLeaves(sf) # {}
         /\ sf' = RefSplit(sf)
         /\ LET p == LeafPaths(sf, <<>>)[Least(BigLeaves(sf))]
                v == At(sf, p)[1]
            IN  /\ IsLeafPair(At(sf', p))
                /\ At(sf', p)[1][1] + At(sf', p)[2][1] = v
                /\ At(sf', p)[1][1] = v \div 2
                /\ At(sf', p)[2][1] - At(sf', p)[1][1] \in {0, 1}
         /\ \A q \in Unsplittable(sf) :
                Split(At(sf, q)) = [split |-> FALSE, node |-> At(sf, q)]]_vars

\* test_snailfish_split: 10, 11 and 21 have become [5,5], [5,6] and [10,11].
C21_Witness ==
    /\ day = 18 /\ pc18 = "reduce" /\ lastOp = "split"
    /\ sf \in {P(N(5), N(5)), P(N(5), N(6)), P(N(10), N(11))}

\* ---------------------------------------------------------------------
\* C22: reduce terminates
\* ---------------------------------------------------------------------

\* C22: every call of reduce returns: from every tree the loop of reduce is
\* entered with, finitely many explosions and splits lead to the break,
\* where neither rule applies.  (The leaves of the trees checked are far
\* below the u32 limit, so that no addition of explode overflows.)
C22_ReduceTerminates ==
    (day = 18 /\ pc18 = "reduce")
        ~> (day = 18 /\ pc18 = "done" /\ ~Explode(sf).exploded /\ ~SplitFirst(sf).split)

\* test_reduce: [[[[4,3],4],4],[7,[[8,4],9]]] + [1,1] has been reduced, by
\* explosions and splits, to [[[[0,7],4],[[7,8],[6,0]]],[8,1]].
C22_Witness ==
    /\ day = 18 /\ pc18 = "done" /\ lastOp = "explode"
    /\ operands = <<P(P(P(P(N(4),N(3)),N(4)),N(4)),P(N(7),P(P(N(8),N(4)),N(9)))),
                    P(N(1),N(1))>>
    /\ sf = P(P(P(P(N(0),N(7)),N(4)),P(P(N(7),N(8)),P(N(6),N(0)))),P(N(8),N(1)))

\* ---------------------------------------------------------------------
\* C23, C24, C25: the children of an operator
\* ---------------------------------------------------------------------

Framed(lt) == Decoded /\ given.kind = "framed" /\ given.packet.lt = lt

\* the bits of a framed input up to and including its length field
FramedHeader == SubSeq(FramedBits, 1, Len(FramedBits) - Len(FramedStream))

\* the children found when nothing follows the first n bits of the stream
ChildrenOfRegion(n) ==
    PacketFromIterator(FramedHeader \o Take(FramedStream, n)).packet.body

RefPackets(kids) == [i \in 1..Len(kids) |-> RefPacket(kids[i])]

\* C23: an operator with length type 0 and total length L, decoded with
\* success, has consumed exactly the L bits after its length field: the
\* iterator is left at the first bit after them, and the children are those
\* the L bits give on their own, whatever follows them; when the L bits are
\* the encodings of the children, these are the children decoded.
C23_TotalLengthRegion ==
    Framed(0) =>
       /\ dec.rest = Drop(FramedStream, given.declared)
       /\ dec.packet.message_type.length_type
             = [kind |-> "TotalLengthInBits", n |-> given.declared]
       /\ dec.packet.body = ChildrenOfRegion(given.declared)
       /\ given.declared = Len(EncodeAll(given.packet.kids))
             => dec.packet.body = RefPackets(given.packet.kids)

\* Two children in 27 bits, followed by another packet, which the next call
\* of from_iterator decodes.
C23_Witness ==
    /\ Framed(0)
    /\ given.declared = 27 /\ Len(given.packet.kids) = 2
    /\ Len(dec.packet.body) = 2
    /\ given.pad = Encode(SecondPacket) \o <<0, 0, 0>>
    /\ dec.rest = given.pad
    /\ dec2 # <<>> /\ dec2.st = "some" /\ dec2.packet = RefPacket(SecondPacket)

\* the operators of a decoded tree whose length type is a subpacket count
CountOperators(p) ==
    {q \in PacketPaths(p) :
        /\ PacketAt(p, q).message_type.kind = "Operator"
        /\ PacketAt(p, q).message_type.length_type.kind = "SubpacketCount"}

\* C24: every operator of a decoded tree whose length type is the subpacket
\* count N has exactly N children: no decode returns such an operator with
\* fewer children than its count.
C24_CountMatchesBody ==
    Decoded =>
       \A q \in CountOperators(dec.packet) :
          Len(PacketAt(dec.packet, q).body)
             = PacketAt(dec.packet, q).message_type.length_type.n

\* the bits of the region of a framed operator with length type 0 that
\* follow the encodings of its children
Leftover ==
    SubSeq(FramedStream, Len(EncodeAll(given.packet.kids)) + 1, given.declared)

\* C25: when the region of an operator with length type 0 holds the
\* encodings of its children followed by leftover bits, the decode does not
\* fail and returns the operator with exactly those children, whatever the
\* leftover bits are and however many there are.
C25_LeftoverBitsDiscarded ==
    (day = 16 /\ pc16 \in {"decoded", "panic"} /\ given.kind = "framed"
        /\ given.packet.lt = 0
        /\ given.declared >= Len(EncodeAll(given.packet.kids)))
    => /\ pc16 = "decoded" /\ dec.st = "some"
       /\ dec.packet.body = RefPackets(given.packet.kids)

\* ---------------------------------------------------------------------
\* C26, C27: the cost of a step, the grid of one cell
\* ---------------------------------------------------------------------

\* C26: whenever the search gives a cell a new cost, it is the cost of the
\* cell being left plus the value of the cell being entered, whichever of
\* the two was the first point of the pair their edge was built from.
C26_StepCostIsEnteredCell ==
    [][(day = 15 /\ pc15 = "astar" /\ visited' # visited) =>
         LET node == CHOOSE n \in visited' \ visited : TRUE
         IN  \A n \in DOMAIN scores' :
                (n \notin DOMAIN scores \/ scores'[n] # scores[n]) =>
                   /\ Adjacent(node, n)
                   /\ scores'[n] = scores[node] + n.value]_vars

\* A cell n got its cost by a step from the expanded cell m on its right or
\* below it, against the direction of the pair (n, m) their edge was built
\* from, and the cost of the step is the value of n, which differs from that
\* of m; no other expanded neighbour of n gives n this cost.
C26_Witness ==
    /\ day = 15 /\ pc15 = "done"
    /\ \E n \in DOMAIN scores : \E m \in visited :
         /\ (m.x = n.x + 1 /\ m.y = n.y) \/ (m.x = n.x /\ m.y = n.y + 1)
         /\ n.value # m.value
         /\ scores[n] = scores[m] + n.value
         /\ \A k \in visited :
               (Adjacent(k, n) /\ k # m) => scores[k] + n.value > scores[n]

\* C27: solve_part1 on a grid of one cell does not abort and returns the
\* cost 0.
C27_SingleCellCostsZero ==
    (day = 15 /\ RectangularText(text) /\ Len(input) = 1
        /\ pc15 \in {"astar", "done", "panic"})
    => /\ pc15 # "panic"
       /\ pc15 = "done" => distance = 0

\* ---------------------------------------------------------------------
\* C28, C29: the reduction of the sum of two reduced numbers
\* ---------------------------------------------------------------------

\* reduce is at work on, or has returned from, Pair(a, b) with a and b reduced
ReducingReducedOperands ==
    /\ day = 18 /\ pc18 \in {"reduce", "done"}
    /\ operands # <<>>
    /\ IsReduced(operands[1]) /\ IsReduced(operands[2])

\* C28: while Pair(a, b) with a and b reduced is being reduced, no tree holds
\* a pair at depth >= 5: every pair at depth >= 4, and so every pair an
\* explosion replaces, has two leaves as children.
C28_NoPairBelowDepthFour ==
    ReducingReducedOperands =>
       /\ \A p \in PairPaths(sf, <<>>) : Len(p) <= 4
       /\ \A p \in DeepPairs(sf) : IsLeafPair(At(sf, p))
       /\ Explode(sf).exploded => Explode(sf).tree = RefExplode(sf)

\* [[[[4,3],4],4],[7,[[8,4],9]]] + [1,1]: after the first explosion and the
\* two splits the pair [6,7] stands at depth 4, its leaves at depth 5.
C28_Witness ==
    /\ ReducingReducedOperands
    /\ pc18 = "reduce" /\ lastOp = "split"
    /\ sf = P(P(P(P(N(0),N(7)),N(4)),P(P(N(7),N(8)),P(N(0),P(N(6),N(7))))),P(N(1),N(1)))

RECURSIVE LeafSum(_)
LeafSum(t) == IF IsNum(t) THEN t[1] ELSE LeafSum(t[1]) + LeafSum(t[2])

\* what an explosion of the leftmost pair at depth >= 4 loses: its left value
\* when no leaf stands on its left, its right value when none on its right
LostByExplosion(t) ==
    LET L == LeafPaths(t, <<>>)
        i == Least(DeepLeafPairs(t))
    IN  (IF i = 1 THEN At(t, L[i])[1] ELSE 0)
        + (IF i + 1 = Len(L) THEN At(t, L[i + 1])[1] ELSE 0)

\* C29: while Pair(a, b) with a and b reduced is being reduced, no rewrite
\* raises the sum of the leaves: a split keeps it, and an explosion lowers it
\* by exactly the values of the exploded pair that find no neighbour leaf.
C29_LeafSumNeverIncreases ==
    [][(ReducingReducedOperands /\ pc18 = "reduce") =>
         /\ LeafSum(sf') <= LeafSum(sf)
         /\ ReduceSplit => LeafSum(sf') = LeafSum(sf)
         /\ ReduceExplode => LeafSum(sf') = LeafSum(sf) - LostByExplosion(sf)]_vars

\* [[[[1,9],1],1],1] + 9: the explosion of [1,9] has lost the 1, which has
\* no leaf on its left, and moved the 9: the sum fell from 22 to 21.
C29_Witness ==
    /\ ReducingReducedOperands
    /\ pc18 = "reduce" /\ lastOp = "explode"
    /\ operands = <<P(P(P(P(N(1),N(9)),N(1)),N(1)),N(1)), N(9)>>
    /\ sf = P(P(P(P(N(0),N(10)),N(1)),N(1)),N(9))
    /\ LeafSum(sf) = 21

\* ---------------------------------------------------------------------
\* C30: the value of an operator without children
\* ---------------------------------------------------------------------

\* the operators of a decoded tree that have no child and fold their children
EmptyFolds(p) ==
    {q \in PacketPaths(p) :
        /\ PacketAt(p, q).message_type.kind = "Operator"
        /\ PacketAt(p, q).body = <<>>
        /\ PacketAt(p, q).message_type.op \in {"Sum", "Product", "Minimum", "Maximum"}}

\* 2^64
TwoTo64 == <<1, 0, 0, 0, 0, 0, 0, 0, 0>>

\* v is the value the fold of op starts with: 0, 1, 2^64 - 1 (the number
\* before 2^64), 0
IsFoldIdentity(op, v) ==
    CASE op = "Sum" -> StripZeros(v) = <<>>
      [] op = "Product" -> StripZeros(v) = <<1>>
      [] op = "Minimum" -> NatAdd(v, <<1>>) = TwoTo64
      [] op = "Maximum" -> StripZeros(v) = <<>>

\* C30: value() of an operator without children does not fail and is the
\* value its fold starts with: 0 for Sum, 1 for Product, u64::MAX = 2^64 - 1
\* for Minimum, 0 for Maximum; this holds for the packet decoded and for
\* every such operator inside it.
C30_EmptyOperatorIsIdentity ==
    (Decoded /\ val # <<>>) =>
       /\ \A q \in EmptyFolds(dec.packet) :
             /\ ~Value(PacketAt(dec.packet, q)).panic
             /\ Len(Value(PacketAt(dec.packet, q)).v) = 8
             /\ IsFoldIdentity(PacketAt(dec.packet, q).message_type.op,
                               Value(PacketAt(dec.packet, q)).v)
       /\ <<>> \in EmptyFolds(dec.packet)
             => ~val.panic /\ IsFoldIdentity(dec.packet.message_type.op, val.v)

\* value() of a Minimum without children has returned u64::MAX.
C30_Witness ==
    /\ Decoded /\ val = Ok(U64_MAX)
    /\ NatAdd(val.v, <<1>>) = TwoTo64
    /\ dec.packet.message_type.kind = "Operator"
    /\ dec.packet.message_type.op = "Minimum"
    /\ dec.packet.body = <<>>
====
